---- MODULE Spec2Model ----
(***************************************************************************)
(* footprint-crawler: the bounded-concurrency scheduler (cli.py main and   *)
(* run_task), the store (db.py Database) and one crawl attempt (engine.py  *)
(* crawl_site), as state machines.                                         *)
(*                                                                         *)
(* Spec      the scheduler with its tasks, the semaphore, the retry loop,  *)
(*           the browser contexts and the store on one shared connection;  *)
(*           a crawl attempt is three steps (new_context, the body up to   *)
(*           its return statement, the finally block).                     *)
(* SpecEngine one crawl attempt, statement by statement.                   *)
(***************************************************************************)
EXTENDS Integers, Sequences, FiniteSets, TLC

\* ------------------------------------------------------------------ bounds
NumSites == 2
MaxConcurrency == 2
MaxRetries == 1
MaxRuns == 1
MaxResumeRuns == 2
\* chunks of the post-consent dwell: post_consent_wait_ms over the 5 s chunk
DwellChunks == 2
\* the labels of a hostname
MaxLabels == 3
\* the requests of one page whose records are compared
MaxRecords == 2
\* the labels of a domain before its public suffix
MaxSubLabels == 3
\* the calls of classify that are compared
MaxAsked == 2
\* the cookies of the context when they are captured
MaxRawCookies == 2
\* the requests of a page load whose responses are followed
MaxSent == 3
MaxWeightRequests == 2
\* the cookies a page sets, by (name, domain)
NumCookies == 1
\* the requests a page load makes
MaxRequests == 1

\* ------------------------------------------------------------------ engine.py
\* for i in range(4)
ScrollSteps == 4

\* ------------------------------------------------------------------ models.py
ConsentMode == {"ignore", "accept", "reject"}
CrawlStatus == {"success", "timeout", "error", "blocked"}

\* sites of the CSV, by SiteInfo.domain
Sites == 1..NumSites
\* the values of --limit and --modes the runs are started with: every site in
\* one mode, or the first site in two modes
RunArgs == {[limit |-> NumSites, modes |-> {"ignore"}],
            [limit |-> 1, modes |-> {"ignore", "accept"}]}
AllTasks == Sites \X {"ignore", "accept"}

\* A CrawlResult as save_crawl_result reads it: the status, requests as the
\* sequence of their is_third_party flags, cookies as the sequence of their
\* is_tracking_cookie flags, the number of fingerprint events, of detected ads
\* and of ad captures.
CrawlResult(status, requests, cookies, fp, ads, caps) ==
    [status |-> status, requests |-> requests, cookies |-> cookies,
     fp_events |-> fp, ads |-> ads, captures |-> caps]

\* what the body of crawl_site can hand to its return statements
SuccessResults == {CrawlResult("success", <<FALSE, TRUE>>, <<TRUE, FALSE>>, 1, 1, 1)}
TimeoutResults == {CrawlResult("timeout", <<TRUE>>, <<>>, 0, 0, 0)}
ErrorResults == {CrawlResult("error", <<>>, <<>>, 0, 0, 0)}
NoResult == CrawlResult("none", <<>>, <<>>, 0, 0, 0)

\* ------------------------------------------------------------------ db.py
Tables == {"sites", "crawl_sessions", "requests", "cookies", "fingerprint_events",
           "ad_elements", "ad_captures"}
EmptyDb == [t \in Tables |-> {}]

Count(seq, flag) == Cardinality({i \in DOMAIN seq : seq[i] = flag})

\* the crawl_sessions row of save_crawl_result's INSERT
SessionRow(id, task, res) ==
    [id |-> id, site |-> task[1], consent_mode |-> task[2],
     status |-> res.status,
     total_requests |-> Len(res.requests),
     third_party_requests |-> Count(res.requests, TRUE),
     total_cookies_set |-> Len(res.cookies),
     tracking_cookies_set |-> Count(res.cookies, TRUE)]

RequestRows(id, res) ==
    {[session_id |-> id, idx |-> i, is_third_party |-> res.requests[i]] :
        i \in DOMAIN res.requests}
CookieRows(id, res) ==
    {[session_id |-> id, idx |-> i, is_tracking_cookie |-> res.cookies[i]] :
        i \in DOMAIN res.cookies}
FingerprintRows(id, res) == {[session_id |-> id, idx |-> i] : i \in 1..res.fp_events}
AdElementRow(id, i) == [session_id |-> id, idx |-> i]
AdCaptureRow(id, i) == [session_id |-> id, idx |-> i]

\* every row of one observation
ObservationRows(id, task, res) ==
    [sites |-> {task[1]},
     crawl_sessions |-> {SessionRow(id, task, res)},
     requests |-> RequestRows(id, res),
     cookies |-> CookieRows(id, res),
     fingerprint_events |-> FingerprintRows(id, res),
     ad_elements |-> {AdElementRow(id, i) : i \in 1..res.ads},
     ad_captures |-> {AdCaptureRow(id, i) : i \in 1..res.captures}]

DbUnion(a, b) == [t \in Tables |-> a[t] \cup b[t]]
Insert(db, table, rows) == [db EXCEPT ![table] = @ \cup rows]

SetMax(S) == IF S = {} THEN 0 ELSE CHOOSE x \in S : \A y \in S : y <= x
\* cur.lastrowid of the INSERT into crawl_sessions
NextSessionId(db) == SetMax({r.id : r \in db.crawl_sessions}) + 1

\* a query without the status condition
has_session_any_status(db, site, mode) ==
    \E r \in db.crawl_sessions : r.site = site /\ r.consent_mode = mode

\* Database.has_session: a session of (domain, mode) with status SUCCESS
has_session(db, site, mode) ==
    \E r \in db.crawl_sessions :
        r.site = site /\ r.consent_mode = mode /\ r.status = "success"

\* stores left by earlier runs: none, one with every pair crawled with success,
\* one with a success, a failure and pairs never crawled
CompleteStore ==
    LET ids == [t \in AllTasks |-> (t[1] - 1) * 2 + (IF t[2] = "ignore" THEN 1 ELSE 2)]
        one(t) == ObservationRows(ids[t], t, CHOOSE r \in SuccessResults : TRUE)
    IN  [tb \in Tables |-> UNION {one(t)[tb] : t \in AllTasks}]
PartialStore ==
    DbUnion(ObservationRows(1, <<1, "ignore">>, CHOOSE r \in SuccessResults : TRUE),
            ObservationRows(2, <<1, "accept">>, CrawlResult("error", <<>>, <<>>, 0, 0, 0)))
InitStores == {EmptyDb, PartialStore, CompleteStore}

VARIABLES
    \* the store
    db_disk,        \* the committed rows of the database file
    db_conn,        \* the rows the shared connection sees: committed and pending
    \* main
    run,            \* how many times the program has been started
    main_pc,        \* "exited", "gather", "browser_closed"
    config,         \* config.crawler: [concurrency, max_retries]
    args,           \* the command line of this run: [resume, limit, modes]
    tasks,          \* the task list of this run
    browser,        \* "none", "open", "closed"
    sem,            \* the value of asyncio.Semaphore
    \* run_task, per task
    pc,
    attempt,        \* the loop variable
    result,         \* the local variable result
    session_id,     \* save_crawl_result's session_id
    ad_index,       \* save_crawl_result's loop variable i
    \* crawl_site, per task
    context,        \* the local variable context: 0 is None, else a context id
    pending,        \* the value of the return statement while finally runs
    contexts,       \* the browser's open contexts, by identity

    \* history
    calls,          \* per task, the statuses crawl_site returned, in order
    saves,          \* per task, the results save_crawl_result was called with
    logged,         \* the tasks with a "Failed to save result" line in the log
    printed,        \* per task, the results progress.print_result was called with
    rows_at_build,  \* the store when the task list was built
    disk_at_start,  \* the database file as this run found it
    observation,    \* session id -> the result its row was written from
    \* one call of crawl_site, statement by statement
    line,           \* the statement crawl_site is at
    mode,           \* the argument mode
    settings,       \* [final_dwell, phase2, screenshot]: final_dwell_ms > 0, the
                    \* Phase 2 modules passed, config.crawler.screenshot
    ctx,            \* the local variable context: "None", "open", "closed"
    jar,            \* the (name, domain) pairs of the context's cookies
    pre_consent_cookies,
    consent_info,   \* [banner_detected, action_taken]
    elapsed_dwell,  \* in chunks
    scroll_i,       \* the loop variable i
    collected,      \* fingerprint_result, ad_detection_result, ad_capture_result,
                    \* resource_weight: "None" or "result"
    cookies,        \* the list _capture_cookies returns
    ret,            \* the value of the return statement reached
    crawl_result,   \* what the caller got
    \* history of the call
    phase_log,      \* the phases entered, in order
    snapshot_read,  \* "no", "ok", "raised": the pre-consent context.cookies()
    jar_at_snapshot,\* the jar at that read
    close_raised,   \* context.close() raised
    captured_requests, \* the number of records in the list captured_requests
    goto_calls,     \* the outcome of every page.goto call made
    raised,         \* the statements at which an exception was raised
    \* one call of ConsentHandler.handle_consent
    banners,        \* the page: what each strategy finds on it
    handle_mode,    \* the argument mode
    strategy,       \* the strategy the cascade is at: an index, 0 before the
                    \* first, Returned after the return
    handle_result,  \* the ConsentInfo returned
    tried,          \* the strategies run, in order
    clicks,         \* the strategy of every click made on the page, in order
    \* the request callback of one crawl_site call
    site_url,       \* site.url
    records,        \* captured_requests as the list of its RequestRecords
    \* a TrackerDatabase
    lookup,         \* self._lookup: domain -> (entity, category)
    asked,          \* the domains classify was called with, in order
    answers,        \* what it returned
    \* the cookies of one attempt, with their values
    raw_cookies,    \* what context.cookies() returns in _capture_cookies
    cookie_line,    \* "capture", "result", "save", "saved"
    cookie_list,    \* the list[CookieRecord] _capture_cookies returns
    result_cookies, \* CrawlResult.cookies
    cookie_rows,    \* the rows of the cookies table
    \* the requests and responses of one page
    resp_records,   \* captured_requests with the fields on_response fills
    request_timestamps, \* url -> time.monotonic() of the last request to it
    clock,          \* time.monotonic(), in ms
    sent_at,        \* per record, when its request event came
    answered,       \* per record, the response its request got, if any
    \* one call of classify_request
    rc_record,      \* the RequestRecord classify_request is called with, by what the rules read
    rc_result,      \* what classify_request returned
    \* the scans of handle_consent that match a button by its text
    ok_texts,       \* self._accept_texts or self._reject_texts, by mode, lower-cased
    ok_mode,        \* the consent mode
    ok_button,      \* the one button of the page: its text, where it is, its context
    ok_step,        \* the scan that runs next
    ok_click,       \* the click made: by which scan, for which phrase
    \* one SUCCESS attempt from its collection phase to its save (SpecWeight)
    weight_requests,\* captured_requests, the list result.requests is
    resource_weight,\* None, or the summary aggregate returned
    weight_line,    \* where crawl_site and run_task are
    weight_rows,    \* the request rows of the saved session
    weight_session  \* None, or the rw_ columns of the saved session row

vars == <<db_disk, db_conn, run, main_pc, config, args, tasks, browser, sem, pc, attempt,
          result, session_id, ad_index, context, pending, contexts, calls, saves,
          logged, printed,
          rows_at_build, disk_at_start, observation,
          line, mode, settings, ctx, jar, pre_consent_cookies, consent_info,
          elapsed_dwell, scroll_i, collected, cookies, ret, crawl_result,
          phase_log, snapshot_read, jar_at_snapshot, close_raised,
          captured_requests, goto_calls, raised,
          banners, handle_mode, strategy, handle_result, tried, clicks,
          site_url, records, lookup, asked, answers,
          raw_cookies, cookie_line, cookie_list, result_cookies, cookie_rows,
          resp_records, request_timestamps, clock, sent_at, answered,
          rc_record, rc_result,
          ok_texts, ok_mode, ok_button, ok_step, ok_click,
          weight_requests, resource_weight, weight_line, weight_rows, weight_session>>

\* the variables of the components modelled on their own
consent_vars == <<banners, handle_mode, strategy, handle_result, tried, clicks>>
request_vars == <<site_url, records>>
classify_vars == <<lookup, asked, answers>>
cookie_vars == <<raw_cookies, cookie_line, cookie_list, result_cookies, cookie_rows>>
response_vars == <<resp_records, request_timestamps, clock, sent_at, answered>>
resource_vars == <<rc_record, rc_result>>
okscan_vars == <<ok_texts, ok_mode, ok_button, ok_step, ok_click>>
weight_vars == <<weight_requests, resource_weight, weight_line, weight_rows, weight_session>>
other_vars == <<consent_vars, request_vars, classify_vars, cookie_vars, response_vars, resource_vars, okscan_vars, weight_vars>>

engine_vars == <<line, mode, settings, ctx, jar, pre_consent_cookies, consent_info,
                 elapsed_dwell, scroll_i, collected, cookies, ret, crawl_result,
                 phase_log, snapshot_read, jar_at_snapshot, close_raised,
                 captured_requests, goto_calls, raised>>
sched_vars == <<db_disk, db_conn, run, main_pc, config, args, tasks, browser, sem, pc,
                attempt, result, session_id, ad_index, context, pending, contexts,
                calls, saves, logged, printed, rows_at_build, disk_at_start,
                observation>>
progress_vars == <<logged, printed>>

\* for each of these components, the variables of everything else
outside_consent == <<sched_vars, engine_vars, request_vars, classify_vars, cookie_vars, response_vars, resource_vars, okscan_vars, weight_vars>>
outside_requests == <<sched_vars, engine_vars, consent_vars, classify_vars, cookie_vars, response_vars, resource_vars, okscan_vars, weight_vars>>
outside_classify == <<sched_vars, engine_vars, consent_vars, request_vars, cookie_vars, response_vars, resource_vars, okscan_vars, weight_vars>>
outside_cookies == <<sched_vars, engine_vars, consent_vars, request_vars, classify_vars, response_vars, resource_vars, okscan_vars, weight_vars>>
outside_response == <<sched_vars, engine_vars, consent_vars, request_vars, classify_vars, cookie_vars, resource_vars, okscan_vars, weight_vars>>
outside_resource == <<sched_vars, engine_vars, consent_vars, request_vars, classify_vars, cookie_vars, response_vars, okscan_vars, weight_vars>>
outside_okscan == <<sched_vars, engine_vars, consent_vars, request_vars, classify_vars, cookie_vars, response_vars, resource_vars, weight_vars>>
outside_weight == <<sched_vars, engine_vars, consent_vars, request_vars, classify_vars, cookie_vars, response_vars, resource_vars, okscan_vars>>

store_vars == <<db_disk, db_conn, observation, session_id, ad_index>>
main_vars == <<run, main_pc, config, args, tasks, browser, rows_at_build, disk_at_start>>
crawl_vars == <<context, pending, contexts, calls>>


\* ------------------------------------------------------------------ db.py
\* Database.upsert_site on store = [conn, disk]: a known domain is only read; a
\* new one is inserted and the connection is committed
upsert_site(store, site) ==
    IF site \in store.conn.sites
    THEN store
    ELSE LET c == Insert(store.conn, "sites", {site}) IN [conn |-> c, disk |-> c]

RECURSIVE upsert_sites(_, _)
upsert_sites(store, S) ==
    IF S = {} THEN store
    ELSE LET s == CHOOSE x \in S : TRUE
         IN  upsert_sites(upsert_site(store, s), S \ {s})

\* where save_crawl_result goes after a statement, by the if-statements
\* between its awaits
after_ad(res, i) ==
    IF i < res.ads THEN "save_ad_element" ELSE "save_commit"
after_fingerprint_events(res) ==
    IF res.ads > 0 THEN "save_ad_element" ELSE "save_commit"
after_cookies(res) ==
    IF res.fp_events > 0 THEN "save_fingerprint_events" ELSE after_fingerprint_events(res)
after_requests(res) ==
    IF res.cookies # <<>> THEN "save_cookies" ELSE after_cookies(res)
after_session(res) ==
    IF res.requests # <<>> THEN "save_requests" ELSE after_requests(res)

\* Connection.commit: everything pending on the connection becomes durable
commit(conn) == conn

\* ------------------------------------------------------------------ cli.py
\* the task list: every (site, mode) not skipped by --resume
build_tasks(conn, resume, sites, modes) ==
    {t \in sites \X modes : ~(resume /\ has_session(conn, t[1], t[2]))}

\* a loop that compares the attempt with max_retries + 1
retry_again_off_by_one(res, att, max_retries) ==
    ~(res.status = "success" \/ att > max_retries)

\* the loop's break condition, negated: another attempt follows
retry_again(res, att, max_retries) ==
    ~(res.status = "success" \/ att >= max_retries)

\* a loop body that saves every attempt's result before its break test
run_task_saves_in_loop(at, res, att, max_retries) ==
    IF at = "returned" THEN "save"
    ELSE IF retry_again(res, att, max_retries) THEN "backoff" ELSE "delay"

\* run_task's control flow: after crawl_site has returned, the break test
\* leads to the backoff sleep or out of the loop to save_crawl_result; after
\* save_crawl_result has returned or raised, the progress calls and the
\* inter-site delay follow
run_task_next(at, res, att, max_retries) ==
    IF at = "returned"
    THEN IF retry_again(res, att, max_retries) THEN "backoff" ELSE "save"
    ELSE "delay"

\* a block exit that gives nothing back
release_forgets(value) == value

\* the exit of async with sem: Semaphore.release
release(value) == value + 1

\* an acquire that does not wait
sem_free_unguarded(value) == TRUE

\* asyncio.Semaphore.acquire returns only while the value is positive
sem_free(value) == value > 0

\* ------------------------------------------------------------------ engine.py
\* a finally block that closes nothing
close_context_leaks(ctxs, c) == ctxs

\* the finally block: context.close(), whose exception is swallowed
close_context(ctxs, c) == ctxs \ {c}

\* browser.new_context(): a context no earlier call has returned; every call
\* is one attempt of one task
new_context(t, att) == <<t, att>>
None == <<>>

\* crawl_site has returned res to run_task's loop
returned(t, res) ==
    /\ result' = [result EXCEPT ![t] = res]
    /\ calls' = [calls EXCEPT ![t] = Append(@, res.status)]
    /\ context' = [context EXCEPT ![t] = None]
    /\ pending' = [pending EXCEPT ![t] = NoResult]
    /\ pc' = [pc EXCEPT ![t] =
            run_task_next("returned", res, attempt[t], config.max_retries)]

\* ------------------------------------------------------------------ consent.py
\* the strategies of handle_consent in the order of its statements, each named
\* after the method it calls; "cmp" and "czech_cmp" are the two loops over
\* _try_cmp
StrategyOrder == <<"cmp", "czech_cmp", "shadow_dom", "cmp_in_frame", "two_step",
                   "get_by_text", "get_by_role", "css_banner", "text_match",
                   "didomi_api", "text_match_in_frame", "nested_iframe_cmp">>
Strategies == 1..Len(StrategyOrder)
Returned == Len(StrategyOrder) + 1

\* what a strategy can find on a page:
\*   "absent"       nothing of its kind: it returns None
\*   "clicked"      its button, which it clicks
\*   "no_button"    its banner without a button it can click
\*   "first_step"   the first element of a two-step flow, which it clicks,
\*                  and then nothing to click in the second step
Findings(name) ==
    IF name \in {"cmp", "czech_cmp", "cmp_in_frame"}
    THEN {"absent", "clicked", "no_button"}
    ELSE IF name = "two_step"
    THEN {"absent", "clicked", "no_button", "first_step"}
    ELSE {"absent", "clicked"}

\* ConsentInfo(banner_detected, cmp_platform, action_taken)
ConsentInfo(banner, platform, action) ==
    [banner_detected |-> banner, cmp_platform |-> platform, action_taken |-> action]
NoBanner == ConsentInfo(FALSE, "None", FALSE)
NotReturned == [returned |-> "None"]

\* handle_consent called in mode m on a page with findings b
HandleInit(b, m) ==
    /\ banners = b
    /\ handle_mode = m
    /\ strategy = 0
    /\ handle_result = NotReturned
    /\ tried = <<>>
    /\ clicks = <<>>

ConsentIdle == HandleInit([i \in Strategies |-> "absent"], "ignore")

\* ------------------------------------------------------------------ utils.py
\* Strings that are URLs or domains, by what urlparse and tldextract read in
\* them: the labels of the hostname, and whether the string is an http(s) URL
\* ("url"), a bare hostname ("bare") or a URL without a hostname such as a
\* blob: URL ("opaque").
Labels == {"a", "b", "co", "uk"}
\* the public suffix list of tldextract
PublicSuffixes == {<<"uk">>, <<"co", "uk">>}
RECURSIVE HostsOfLen(_)
HostsOfLen(n) ==
    IF n = 0 THEN {<<>>}
    ELSE {<<l>> \o h : l \in Labels, h \in HostsOfLen(n - 1)}
Hosts == UNION {HostsOfLen(n) : n \in 1..MaxLabels}
Str(kind, host) == [kind |-> kind, host |-> host]
Urls == {Str("url", h) : h \in Hosts} \cup {Str("opaque", <<>>)}
SiteUrls == {Str("url", h) : h \in Hosts}

LastLabels(h, k) == SubSeq(h, Len(h) - k + 1, Len(h))

\* tldextract.extract(x).registered_domain: the longest public suffix of the
\* hostname and the label before it; "" without a suffix or without a label
\* before it
tld_registered_domain(h) ==
    LET ks == {k \in 1..Len(h) : LastLabels(h, k) \in PublicSuffixes}
    IN  IF ks = {} THEN <<>>
        ELSE LET k == CHOOSE i \in ks : \A j \in ks : j <= i
             IN  IF Len(h) > k THEN LastLabels(h, k + 1) ELSE <<>>

\* urlparse(...).hostname; None for a URL without one
hostname(x) == IF x.kind = "opaque" THEN <<>> ELSE x.host

\* extract_registered_domain: tldextract's registered domain, or else the
\* hostname, or else the string itself
extract_registered_domain(x) ==
    IF tld_registered_domain(x.host) # <<>> THEN Str("bare", tld_registered_domain(x.host))
    ELSE IF hostname(x) # <<>> THEN Str("bare", hostname(x))
    ELSE x

\* extract_hostname: parsed.hostname or ""
extract_hostname(url) == Str("bare", hostname(url))

\* a comparison of the hostnames as they are
is_third_party_by_hostname(request_domain, page_domain) == request_domain # page_domain

\* is_third_party(request_domain, page_domain)
is_third_party(request_domain, page_domain) ==
    extract_registered_domain(request_domain) # extract_registered_domain(page_domain)

\* ------------------------------------------------------------------ engine.py
\* the RequestRecord on_request builds for a request of url
RequestRecord(url, site_reg_domain) ==
    [url |-> url,
     domain |-> extract_registered_domain(url),
     is_third_party |-> is_third_party(extract_hostname(url), site_reg_domain)]

\* crawl_site called for a site of URL u
RequestInit(u) ==
    /\ site_url = u
    /\ records = <<>>

RequestIdle == RequestInit(Str("url", <<"a", "uk">>))

\* ------------------------------------------------------------------ tracker_db.py
\* Entries are (entity, category) pairs.
Entry(entity, category) == [entity |-> entity, category |-> category]
Unknown == Entry("None", "None")

\* BUILTIN_TRACKERS, by its shape: registered domains, and a subdomain of one
\* of them listed with the same entity and another category (as
\* connect.facebook.net under facebook.net)
BUILTIN_TRACKERS ==
    (<<"a", "uk">> :> Entry("E1", "advertising")) @@
    (<<"b", "a", "uk">> :> Entry("E1", "social"))

\* the domains a JSON source can list, and the entries it can give them
JsonDomains == {<<"a", "uk">>, <<"b", "a", "uk">>, <<"a", "co", "uk">>}
JsonEntries == {Entry("E2", "advertising"), Entry("E1", "social")}
JsonSources == UNION {[D -> JsonEntries] : D \in SUBSET JsonDomains}

\* self._lookup[domain] = ...: the entries of a source replace those there
load(table, source) ==
    [d \in DOMAIN table \cup DOMAIN source |->
        IF d \in DOMAIN source THEN source[d] ELSE table[d]]

\* the domain strings classify is asked about: one to MaxSubLabels labels
\* before a public suffix
RECURSIVE LabelSeqs(_)
LabelSeqs(n) ==
    IF n = 0 THEN {<<>>}
    ELSE {<<l>> \o h : l \in {"a", "b"}, h \in LabelSeqs(n - 1)}
Domains == {p \o sfx : p \in UNION {LabelSeqs(n) : n \in 1..MaxSubLabels},
                       sfx \in PublicSuffixes}

\* the parents of a domain, nearest first: ".".join(parts[i:]) for i >= 1
parent(domain, i) == SubSeq(domain, i + 1, Len(domain))

\* TrackerDatabase.classify: the exact entry, else the entry of the
\* registered domain, else the entry of the nearest listed parent
classify(table, domain) ==
    LET reg_domain == extract_registered_domain(Str("bare", domain)).host
        listed == {i \in 1..(Len(domain) - 1) : parent(domain, i) \in DOMAIN table}
    IN  IF domain \in DOMAIN table THEN table[domain]
        ELSE IF reg_domain \in DOMAIN table THEN table[reg_domain]
        ELSE IF listed # {}
        THEN table[parent(domain, CHOOSE i \in listed : \A j \in listed : i <= j)]
        ELSE Unknown

\* TrackerDatabase(...) built from the JSON source given
ClassifyInit(source) ==
    /\ lookup = load(BUILTIN_TRACKERS, source)
    /\ asked = <<>>
    /\ answers = <<>>

ClassifyIdle == ClassifyInit(<<>>)

\* ------------------------------------------------------------------ cookie values
\* the values a cookie can have: empty, plain, a question mark, and a lone
\* surrogate, which UTF-8 cannot encode
Values == {"", "v", "?", "\\ud800"}

\* value.encode("utf-8", errors="replace"): what cannot be encoded becomes "?"
encode(value) == IF value = "\\ud800" THEN "?" ELSE value

\* hashlib.sha256(...).hexdigest() on the byte strings above
sha256_hexdigest ==
    ("" :> "e3b0c44298fc1c149afbf4c8996fb92427ae41e4649b934ca495991b7852b855") @@
    ("v" :> "4c94485e0c21ae6c41ce1dfe7b6bfaceea5ab68e40a2476f50208e526f506080") @@
    ("?" :> "8a8de823d5ed3e12746a62ef169bcf372be0ca44f0a1236abc35df05d96928e1")

hash_cookie_value_plain(value) == value

hash_cookie_value(value) == sha256_hexdigest[encode(value)]

\* dict.get(key, default)
get(c, key, default) == IF key \in DOMAIN c THEN c[key] ELSE default

\* cookie_domain.lstrip(".") of the cookie domains used, as labels
lstrip_dot == (".a.uk" :> <<"a", "uk">>) @@ ("b.uk" :> <<"b", "uk">>)

\* the cookie dicts of the browser: session cookies, with or without a value
RawCookies ==
    LET base == [name : {"sid", "n"}, domain : DOMAIN lstrip_dot, path : {"/"},
                 expires : {-1}, secure : {FALSE}, httpOnly : {TRUE},
                 sameSite : {"Lax"}]
    IN  base \cup {c @@ [value |-> v] : c \in base, v \in Values}

\* _is_tracking_cookie_by_name on the names used: "sid" is a listed pattern
TRACKING_COOKIE_PATTERNS == {"sid"}

\* TrackerDatabase.is_tracking_cookie
is_tracking_cookie(name, domain) ==
    \/ name \in TRACKING_COOKIE_PATTERNS
    \/ classify(BUILTIN_TRACKERS, lstrip_dot[domain]).entity # "None"

\* the CookieRecord _capture_cookies appends for cookie dict c
CookieRecord(c, pre) ==
    [name |-> c.name,
     domain |-> get(c, "domain", ""),
     value_hash |-> hash_cookie_value(get(c, "value", "")),
     path |-> get(c, "path", "/"),
     expires_at |-> "None",
     lifetime_days |-> "None",
     is_secure |-> get(c, "secure", FALSE),
     is_http_only |-> get(c, "httpOnly", FALSE),
     same_site |-> get(c, "sameSite", "None"),
     is_session |-> get(c, "expires", -1) <= 0,
     is_tracking_cookie |-> is_tracking_cookie(c.name, get(c, "domain", "")),
     tracker_entity |-> classify(BUILTIN_TRACKERS, lstrip_dot[get(c, "domain", "")]).entity,
     set_before_consent |-> <<c.name, get(c, "domain", "")>> \in pre,
     timestamp |-> "now"]

\* the tuple INSERT INTO cookies writes for a CookieRecord
CookieRow(id, c) ==
    [session_id |-> id, name |-> c.name, domain |-> c.domain,
     value_hash |-> c.value_hash, path |-> c.path, expires_at |-> c.expires_at,
     lifetime_days |-> c.lifetime_days, is_secure |-> c.is_secure,
     is_http_only |-> c.is_http_only, same_site |-> c.same_site,
     is_session |-> c.is_session, is_tracking_cookie |-> c.is_tracking_cookie,
     tracker_entity |-> c.tracker_entity,
     set_before_consent |-> c.set_before_consent, timestamp |-> c.timestamp]

CookieInit(raw) ==
    /\ raw_cookies = raw
    /\ cookie_line = "capture"
    /\ cookie_list = <<>>
    /\ result_cookies = <<>>
    /\ cookie_rows = <<>>

CookieIdle == CookieInit(<<>>)

\* ------------------------------------------------------------------ on_response
\* the URLs a page requests, and the responses: status, content-length and
\* content-type headers (absent, or their text)
ReqUrls == {"u1", "u2"}
Responses == [status : {200, 404},
              content_length : {None, <<"10">>, <<"x">>},
              content_type : {None, <<"text/html">>}]

\* int(content_length): the text of a number, or ValueError
int_of == ("10" :> <<10>>) @@ ("x" :> None)

\* the RequestRecord on_request appends, by the fields on_response reads and
\* writes
NewRecord(url) ==
    [url |-> url, status_code |-> None, response_size_bytes |-> None,
     content_type |-> None, timing_ms |-> None]

\* the body of "if record.url == req_url and record.status_code is None"
fill(record, response, now, stamps) ==
    [record EXCEPT
        !.status_code = <<response.status>>,
        !.response_size_bytes =
            IF response.content_length # None
            THEN int_of[response.content_length[1]] ELSE None,
        !.content_type = response.content_type,
        !.timing_ms = IF stamps[record.url] # None
                      THEN <<now - stamps[record.url][1]>> ELSE None]

\* for record in reversed(captured_requests): the last record of that URL
\* whose status_code is None, or 0 when there is none
matching(recs, req_url) ==
    LET open == {k \in DOMAIN recs : recs[k].url = req_url /\ recs[k].status_code = None}
    IN  IF open = {} THEN 0 ELSE CHOOSE k \in open : \A j \in open : j <= k

ResponseIdle ==
    /\ resp_records = <<>>
    /\ request_timestamps = [u \in ReqUrls |-> None]
    /\ clock = 0
    /\ sent_at = <<>>
    /\ answered = <<>>

\* ------------------------------------------------------------------ resource_weight.py
\* the tracker categories of the built-in table and of the loaders
TrackerCategories == {"advertising", "analytics", "social", "fingerprinting", "cdn", "other"}

\* a request as classify_request sees it: the is_third_party flag, what
\* tracker_db.classify(record.domain) returns, and whether record.domain is
\* in each domain set or contains a pattern of each pattern list
RcRecords ==
    [is_third_party : BOOLEAN,
     entry : {Unknown} \cup {Entry("E1", c) : c \in TrackerCategories},
     in_cdn_domains : BOOLEAN, cdn_pattern : BOOLEAN,
     in_functional_domains : BOOLEAN, functional_pattern : BOOLEAN,
     ad_pattern : BOOLEAN]

ResourceCategory == {"content_1p", "cdn", "tracker", "ad", "functional_3p", "unknown_3p"}

\* ResourceWeightClassifier.classify_request
classify_request(record) ==
    IF ~record.is_third_party THEN "content_1p"
    ELSE IF record.entry.category = "advertising" THEN "ad"
    ELSE IF record.entry.category \in {"analytics", "fingerprinting", "social"} THEN "tracker"
    ELSE IF record.in_cdn_domains THEN "cdn"
    ELSE IF record.cdn_pattern THEN "cdn"
    ELSE IF record.in_functional_domains THEN "functional_3p"
    ELSE IF record.functional_pattern THEN "functional_3p"
    ELSE IF record.ad_pattern THEN "ad"
    ELSE IF record.entry.entity # "None" THEN "tracker"
    ELSE "unknown_3p"

\* a request of domain fbcdn.net: ("Meta", "cdn") in the built-in table, in no
\* set and with no pattern of resource_weight.py
FbcdnRecord ==
    [is_third_party |-> TRUE, entry |-> Entry("E1", "cdn"),
     in_cdn_domains |-> FALSE, cdn_pattern |-> FALSE,
     in_functional_domains |-> FALSE, functional_pattern |-> FALSE,
     ad_pattern |-> FALSE]

ResourceInit(record) ==
    /\ rc_record = record
    /\ rc_result = "None"

ResourceIdle == ResourceInit(FbcdnRecord)

\* ------------------------------------------------------------------ consent.py, phrases
\* the scans that look for a button by its text, in the order of the
\* cascade; "ok_button" is the last resort at the end of _try_text_match
ScanOrder == <<"shadow_dom", "two_step", "get_by_text", "get_by_role", "css_banner",
               "text_match", "ok_button", "text_match_in_frame", "nested_iframe_cmp">>
ScansDone == Len(ScanOrder) + 1

\* configured phrases, lower-cased as __init__ does
Phrases == {"ok", "souhlasim"}

\* button texts, with str.lower() / toLowerCase() of each
ButtonTexts == {"OK", "Souhlasim", "Cookies"}
lower == ("OK" :> "ok") @@ ("Souhlasim" :> "souhlasim") @@ ("Cookies" :> "cookies")

\* pattern in text, for the phrases and lower-cased texts above
contains(text, pattern) ==
    \/ text = pattern
    \/ pattern = "ok" /\ text = "cookies"

\* where a button is, and the scans that look there
Places == {"shadow_root", "cmp_page", "page", "frame"}
looks_in(scan) ==
    CASE scan = "shadow_dom" -> "shadow_root"
      [] scan = "two_step" -> "cmp_page"
      [] scan \in {"text_match_in_frame", "nested_iframe_cmp"} -> "frame"
      [] OTHER -> "page"

Buttons == [text : ButtonTexts, place : Places, consent_context : BOOLEAN]

\* the phrases a scan matches with: "if text_pattern == 'ok': continue" is in
\* the loops of the locator, container, page and frame scans, not in the
\* shadow-root script and not in the Seznam CMP-page loops
patterns_of(scan, texts) ==
    IF scan \in {"shadow_dom", "two_step"} THEN texts ELSE texts \ {"ok"}

\* the phrases of the scan that match the button where the scan looks
matches(scan, texts, m, button) ==
    IF button.place # looks_in(scan) THEN {}
    ELSE IF scan = "ok_button"
    THEN IF m = "accept" /\ lower[button.text] = "ok" /\ button.consent_context
         THEN {"OK"} ELSE {}
    ELSE {p \in patterns_of(scan, texts) :
            /\ contains(lower[button.text], p)
            /\ scan = "get_by_role" => button.consent_context
            /\ scan = "text_match" => (button.consent_context \/ Len(button.text) >= 4)}

OkInit(texts, m, button) ==
    /\ ok_texts = texts
    /\ ok_mode = m
    /\ ok_button = button
    /\ ok_step = 1
    /\ ok_click = None

OkIdle == OkInit({}, "accept", [text |-> "OK", place |-> "page", consent_context |-> FALSE])

\* ------------------------------------------------------------------ resource_weight.py
\* the categories and Content-Length values of the requests of one attempt
WeightCategories == {"content_1p", "ad"}
Sizes == {None, <<1>>, <<2>>}

\* r.response_size_bytes or 0
size_or_0(r) == IF r.response_size_bytes = None THEN 0 ELSE r.response_size_bytes[1]

\* the bytes of the records of a list whose category is one of cats
RECURSIVE bytes_of(_, _)
bytes_of(requests, cats) ==
    IF requests = <<>> THEN 0
    ELSE (IF Head(requests).resource_category \in cats
          THEN size_or_0(Head(requests)) ELSE 0)
         + bytes_of(Tail(requests), cats)

\* ResourceWeightClassifier.aggregate: total_bytes and one sum per category
aggregate_requests(requests) ==
    [total_bytes |-> bytes_of(requests, ResourceCategory),
     by_category |-> [c \in ResourceCategory |-> bytes_of(requests, {c})]]

\* crawl_site at its collection phase, with no request captured so far
WeightInit ==
    /\ weight_requests = <<>>
    /\ resource_weight = None
    /\ weight_line = "collecting"
    /\ weight_rows = <<>>
    /\ weight_session = None

WeightIdle == WeightInit

OtherIdle == ConsentIdle /\ RequestIdle /\ ClassifyIdle /\ CookieIdle /\ ResponseIdle /\ ResourceIdle /\ OkIdle /\ WeightIdle

\* ------------------------------------------------------------------ main
NoCollected == [fingerprint_result |-> "None", ad_detection_result |-> "None",
                ad_capture_result |-> "None", resource_weight |-> "None"]
NoReturn == [status |-> "none", requests |-> 0]

\* crawl_site called with mode m and settings s
EngineInit(m, s) ==
    /\ line = "new_context"
    /\ mode = m
    /\ settings = s
    /\ ctx = "None"
    /\ jar = {}
    /\ pre_consent_cookies = {}
    /\ consent_info = [banner_detected |-> FALSE, action_taken |-> FALSE]
    /\ elapsed_dwell = 0
    /\ scroll_i = 0
    /\ collected = NoCollected
    /\ cookies = {}
    /\ ret = NoReturn
    /\ crawl_result = NoReturn
    /\ phase_log = <<>>
    /\ snapshot_read = "no"
    /\ jar_at_snapshot = {}
    /\ close_raised = FALSE
    /\ captured_requests = 0
    /\ goto_calls = <<>>
    /\ raised = {}

SchedInit ==
    /\ db_disk \in InitStores
    /\ db_conn = db_disk
    /\ run = 0
    /\ main_pc = "exited"
    /\ config \in [concurrency : 1..MaxConcurrency, max_retries : 0..MaxRetries]
    /\ args = [resume |-> FALSE, limit |-> 0, modes |-> {}]
    /\ tasks = {}
    /\ browser = "none"
    /\ sem = 0
    /\ pc = [t \in AllTasks |-> "none"]
    /\ attempt = [t \in AllTasks |-> 0]
    /\ result = [t \in AllTasks |-> NoResult]
    /\ session_id = [t \in AllTasks |-> 0]
    /\ ad_index = [t \in AllTasks |-> 0]
    /\ context = [t \in AllTasks |-> None]
    /\ pending = [t \in AllTasks |-> NoResult]
    /\ contexts = {}
    /\ calls = [t \in AllTasks |-> <<>>]
    /\ saves = [t \in AllTasks |-> <<>>]
    /\ logged = {}
    /\ printed = [t \in AllTasks |-> <<>>]
    /\ rows_at_build = db_disk
    /\ disk_at_start = db_disk
    /\ observation = [i \in {r.id : r \in db_disk.crawl_sessions} |->
                        CHOOSE res \in SuccessResults \cup ErrorResults :
                            \E r \in db_disk.crawl_sessions :
                                /\ r.id = i
                                /\ r = SessionRow(i, <<r.site, r.consent_mode>>, res)]

EngineIdle ==
    EngineInit("ignore", [final_dwell |-> TRUE, phase2 |-> FALSE, screenshot |-> FALSE])

Init ==
    /\ SchedInit
    /\ EngineIdle
    /\ OtherIdle

\* main up to asyncio.gather: connect, upsert the sites, build the task list;
\* with no task, close the store and return; else launch the browser, create
\* the semaphore and start one run_task per task
main_setup(resume, limit, modes, max_runs) ==
    /\ main_pc = "exited"
    /\ run < max_runs
    /\ run' = run + 1
    /\ args' = [resume |-> resume, limit |-> limit, modes |-> modes]
    /\ LET store == upsert_sites([conn |-> db_disk, disk |-> db_disk], 1..limit)
           list == build_tasks(store.conn, resume, 1..limit, modes)
       IN  /\ db_disk' = store.disk
           /\ db_conn' = store.conn
           /\ rows_at_build' = store.conn
           /\ tasks' = list
           /\ main_pc' = IF list = {} THEN "exited" ELSE "gather"
           /\ browser' = IF list = {} THEN "none" ELSE "open"
           /\ sem' = IF list = {} THEN 0 ELSE config.concurrency
           /\ disk_at_start' = db_disk
           /\ pc' = [t \in AllTasks |-> IF t \in list THEN "acquire" ELSE "none"]
    /\ attempt' = [t \in AllTasks |-> 0]
    /\ result' = [t \in AllTasks |-> NoResult]
    /\ session_id' = [t \in AllTasks |-> 0]
    /\ ad_index' = [t \in AllTasks |-> 0]
    /\ context' = [t \in AllTasks |-> None]
    /\ pending' = [t \in AllTasks |-> NoResult]
    /\ contexts' = {}
    /\ calls' = [t \in AllTasks |-> <<>>]
    /\ saves' = [t \in AllTasks |-> <<>>]
    /\ logged' = {}
    /\ printed' = [t \in AllTasks |-> <<>>]
    /\ UNCHANGED <<engine_vars, other_vars, observation, config>>

\* async with sem: entered
run_task_acquire(t) ==
    /\ pc[t] = "acquire"
    /\ sem_free(sem)
    /\ sem' = sem - 1
    /\ attempt' = [attempt EXCEPT ![t] = 0]
    /\ pc' = [pc EXCEPT ![t] = "crawl_site"]
    /\ UNCHANGED <<engine_vars, other_vars, store_vars, main_vars, crawl_vars, result, saves, progress_vars>>

\* crawl_site up to browser.new_context: the context is created, or the call
\* raises, the except block builds the ERROR result and finally has no context
crawl_site_new_context(t) ==
    /\ pc[t] = "crawl_site"
    /\ \/ /\ contexts' = contexts \cup {new_context(t, attempt[t])}
          /\ context' = [context EXCEPT ![t] = new_context(t, attempt[t])]
          /\ pc' = [pc EXCEPT ![t] = "body"]
          /\ UNCHANGED <<result, calls, pending>>
       \/ /\ returned(t, CrawlResult("error", <<>>, <<>>, 0, 0, 0))
          /\ UNCHANGED contexts
    /\ UNCHANGED <<engine_vars, other_vars, store_vars, main_vars, sem, attempt, saves, progress_vars>>

\* crawl_site from new_page to one of its return statements
crawl_site_body(t) ==
    /\ pc[t] = "body"
    /\ \E res \in SuccessResults \cup TimeoutResults \cup ErrorResults :
            pending' = [pending EXCEPT ![t] = res]
    /\ pc' = [pc EXCEPT ![t] = "finally"]
    /\ UNCHANGED <<engine_vars, other_vars, store_vars, main_vars, sem, attempt, result, saves, progress_vars,
                   context, contexts, calls>>

\* the finally block, then the return to run_task and its break test
crawl_site_finally(t) ==
    /\ pc[t] = "finally"
    /\ contexts' = close_context(contexts, context[t])
    /\ returned(t, pending[t])
    /\ UNCHANGED <<engine_vars, other_vars, store_vars, main_vars, sem, attempt, saves, progress_vars>>

\* asyncio.sleep(2), then the next iteration
run_task_backoff(t) ==
    /\ pc[t] = "backoff"
    /\ attempt' = [attempt EXCEPT ![t] = @ + 1]
    /\ pc' = [pc EXCEPT ![t] = "crawl_site"]
    /\ UNCHANGED <<engine_vars, other_vars, store_vars, main_vars, crawl_vars, sem, result, saves, progress_vars>>

\* ------------------------------------------------------------------ db.py
\* save_crawl_result, statement by statement: each await lets other tasks run,
\* and every task's statements go to the one connection db_conn

\* the call, upsert_site (the site was upserted by main) and the counters
save_crawl_result(t) ==
    /\ pc[t] = "save"
    /\ saves' = [saves EXCEPT ![t] = Append(@, result[t])]
    /\ LET store == upsert_site([conn |-> db_conn, disk |-> db_disk], t[1])
       IN  db_conn' = store.conn /\ db_disk' = store.disk
    /\ pc' = [pc EXCEPT ![t] = "save_session"]
    /\ UNCHANGED <<progress_vars, engine_vars, other_vars, main_vars, crawl_vars, sem, attempt, result, observation,
                   session_id, ad_index>>

\* INSERT INTO crawl_sessions
save_session(t) ==
    /\ pc[t] = "save_session"
    /\ LET id == NextSessionId(db_conn)
       IN  /\ db_conn' = Insert(db_conn, "crawl_sessions", {SessionRow(id, t, result[t])})
           /\ session_id' = [session_id EXCEPT ![t] = id]
           /\ observation' = (id :> result[t]) @@ observation
    /\ pc' = [pc EXCEPT ![t] = after_session(result[t])]
    /\ UNCHANGED <<engine_vars, other_vars, main_vars, crawl_vars, sem, attempt, result, saves, progress_vars, db_disk, ad_index>>

\* executemany INSERT INTO requests
save_requests(t) ==
    /\ pc[t] = "save_requests"
    /\ db_conn' = Insert(db_conn, "requests", RequestRows(session_id[t], result[t]))
    /\ pc' = [pc EXCEPT ![t] = after_requests(result[t])]
    /\ UNCHANGED <<engine_vars, other_vars, main_vars, crawl_vars, sem, attempt, result, saves, progress_vars, db_disk,
                   observation, session_id, ad_index>>

\* executemany INSERT INTO cookies
save_cookies(t) ==
    /\ pc[t] = "save_cookies"
    /\ db_conn' = Insert(db_conn, "cookies", CookieRows(session_id[t], result[t]))
    /\ pc' = [pc EXCEPT ![t] = after_cookies(result[t])]
    /\ UNCHANGED <<engine_vars, other_vars, main_vars, crawl_vars, sem, attempt, result, saves, progress_vars, db_disk,
                   observation, session_id, ad_index>>

\* executemany INSERT INTO fingerprint_events
save_fingerprint_events(t) ==
    /\ pc[t] = "save_fingerprint_events"
    /\ db_conn' = Insert(db_conn, "fingerprint_events",
                         FingerprintRows(session_id[t], result[t]))
    /\ ad_index' = [ad_index EXCEPT ![t] = 0]
    /\ pc' = [pc EXCEPT ![t] = after_fingerprint_events(result[t])]
    /\ UNCHANGED <<engine_vars, other_vars, main_vars, crawl_vars, sem, attempt, result, saves, progress_vars, db_disk,
                   observation, session_id>>

\* INSERT INTO ad_elements for the next ad of the loop
save_ad_element(t) ==
    /\ pc[t] = "save_ad_element"
    /\ LET i == ad_index[t] + 1
       IN  /\ ad_index' = [ad_index EXCEPT ![t] = i]
           /\ db_conn' = Insert(db_conn, "ad_elements", {AdElementRow(session_id[t], i)})
           /\ pc' = [pc EXCEPT ![t] =
                   IF i <= result[t].captures THEN "save_ad_capture"
                   ELSE after_ad(result[t], i)]
    /\ UNCHANGED <<engine_vars, other_vars, main_vars, crawl_vars, sem, attempt, result, saves, progress_vars, db_disk,
                   observation, session_id>>

\* INSERT INTO ad_captures for the capture of that ad
save_ad_capture(t) ==
    /\ pc[t] = "save_ad_capture"
    /\ db_conn' = Insert(db_conn, "ad_captures", {AdCaptureRow(session_id[t], ad_index[t])})
    /\ pc' = [pc EXCEPT ![t] = after_ad(result[t], ad_index[t])]
    /\ UNCHANGED <<engine_vars, other_vars, main_vars, crawl_vars, sem, attempt, result, saves, progress_vars, db_disk,
                   observation, session_id, ad_index>>

\* self._conn.commit(), then run_task's progress calls
save_commit(t) ==
    /\ pc[t] = "save_commit"
    /\ db_disk' = commit(db_conn)
    /\ printed' = [printed EXCEPT ![t] = Append(@, result[t])]
    /\ pc' = [pc EXCEPT ![t] = run_task_next("saved", result[t], attempt[t], config.max_retries)]
    /\ UNCHANGED <<engine_vars, other_vars, main_vars, crawl_vars, sem, attempt, result, saves, logged, db_conn,
                   observation, session_id, ad_index>>

SavePcs == {"save_session", "save_requests", "save_cookies", "save_fingerprint_events",
            "save_ad_element", "save_ad_capture", "save_commit"}

\* an except block that logs and raises again: the exception leaves run_task
except_save_reraises(res, att, max_retries) == "raised"

\* run_task's except Exception around save_crawl_result: after logger.error
\* the task goes on as after a save that returned
except_save(res, att, max_retries) == run_task_next("saved", res, att, max_retries)

\* a statement of save_crawl_result raises: the statement writes nothing, no
\* rollback is issued, run_task's except block logs and goes on to the
\* progress calls
save_raises(t) ==
    /\ pc[t] \in SavePcs
    /\ logged' = logged \cup {t}
    /\ printed' = [printed EXCEPT ![t] = Append(@, result[t])]
    /\ pc' = [pc EXCEPT ![t] = except_save(result[t], attempt[t], config.max_retries)]
    /\ UNCHANGED <<engine_vars, other_vars, main_vars, crawl_vars, store_vars, sem, attempt, result, saves>>

\* ------------------------------------------------------------------ cli.py
\* an async with block that holds the retry loop only: the save and the
\* sleep come after it
leaves_block_before_save(at) == at \in {"save", "delay"}

\* the last statement of the async with sem block is the inter-site sleep
leaves_block(at) == at = "delay"

\* asyncio.sleep(inter_site_delay) is over; the async with block is left
run_task_release(t) ==
    /\ leaves_block(pc[t])
    /\ sem' = release(sem)
    /\ pc' = [pc EXCEPT ![t] = "done"]
    /\ UNCHANGED <<engine_vars, other_vars, main_vars, crawl_vars, store_vars, attempt, result, saves, progress_vars>>

\* gather has returned: browser.close()
main_close_browser ==
    /\ main_pc = "gather"
    /\ \A t \in tasks : pc[t] = "done"
    /\ browser' = "closed"
    /\ main_pc' = "browser_closed"
    /\ contexts' = {}
    /\ UNCHANGED <<engine_vars, other_vars, store_vars, context, pending, calls, run, config, args, tasks,
                   rows_at_build, disk_at_start, sem, pc, attempt, result, saves, progress_vars>>

\* db.close(): what is pending on the connection is rolled back
main_close_db ==
    /\ main_pc = "browser_closed"
    /\ db_conn' = db_disk
    /\ observation' = [i \in {r.id : r \in db_disk.crawl_sessions} |-> observation[i]]
    /\ main_pc' = "exited"
    /\ UNCHANGED <<engine_vars, other_vars, crawl_vars, run, config, args, tasks, browser, rows_at_build,
                   disk_at_start, sem, pc, attempt, result, saves, progress_vars, db_disk,
                   session_id, ad_index>>

Next ==
    \/ \E resume \in BOOLEAN, a \in RunArgs :
            main_setup(resume, a.limit, a.modes, MaxRuns)
    \/ \E t \in AllTasks : run_task_acquire(t)
    \/ \E t \in AllTasks : crawl_site_new_context(t)
    \/ \E t \in AllTasks : crawl_site_body(t)
    \/ \E t \in AllTasks : crawl_site_finally(t)
    \/ \E t \in AllTasks : run_task_backoff(t)
    \/ \E t \in AllTasks : save_crawl_result(t)
    \/ \E t \in AllTasks : save_session(t)
    \/ \E t \in AllTasks : save_requests(t)
    \/ \E t \in AllTasks : save_cookies(t)
    \/ \E t \in AllTasks : save_fingerprint_events(t)
    \/ \E t \in AllTasks : save_ad_element(t)
    \/ \E t \in AllTasks : save_ad_capture(t)
    \/ \E t \in AllTasks : save_commit(t)
    \/ \E t \in AllTasks : save_raises(t)
    \/ \E t \in AllTasks : run_task_release(t)
    \/ main_close_browser
    \/ main_close_db

Spec == Init /\ [][Next]_vars

\* a run on a new database file
InitLive ==
    /\ Init
    /\ db_disk = EmptyDb

\* the event loop runs a task that can run: no behaviour stops while a step
\* of main or of a task is possible
SpecLive == InitLive /\ [][Next]_vars /\ WF_vars(Next)

\* a call of run_task outside its try block raises: progress.update_active at
\* the head of the retry loop writes to sys.stdout; the exception leaves the
\* async with block, which releases the slot, and ends the task's coroutine
run_task_raises(t) ==
    /\ pc[t] = "crawl_site"
    /\ sem' = release(sem)
    /\ pc' = [pc EXCEPT ![t] = "raised"]
    /\ UNCHANGED <<engine_vars, other_vars, main_vars, crawl_vars, store_vars, attempt, result, saves, progress_vars>>

\* what asyncio.run leaves of a task when main has raised: a finished
\* coroutine stays as it is, every other one is cancelled at its await
cancel(at) == IF at \in {"none", "done", "raised"} THEN at ELSE "cancelled"

\* asyncio.gather without return_exceptions hands the first exception to
\* main: the async with async_playwright() block is left without
\* browser.close(), the driver stops and takes the browser with it, main
\* raises past db.close(), and asyncio.run cancels the tasks still running
main_gather_raises ==
    /\ main_pc = "gather"
    /\ \E t \in tasks : pc[t] = "raised"
    /\ main_pc' = "aborted"
    /\ browser' = "stopped"
    /\ contexts' = {}
    /\ pc' = [t \in AllTasks |-> cancel(pc[t])]
    /\ UNCHANGED <<engine_vars, other_vars, store_vars, context, pending, calls, run, config, args, tasks,
                   rows_at_build, disk_at_start, sem, attempt, result, saves, progress_vars>>

NextEscape ==
    \/ \E resume \in BOOLEAN, a \in RunArgs :
            main_setup(resume, a.limit, a.modes, MaxRuns)
    \/ \E t \in AllTasks : run_task_acquire(t)
    \/ \E t \in AllTasks : crawl_site_new_context(t)
    \/ \E t \in AllTasks : crawl_site_body(t)
    \/ \E t \in AllTasks : crawl_site_finally(t)
    \/ \E t \in AllTasks : run_task_backoff(t)
    \/ \E t \in AllTasks : save_crawl_result(t)
    \/ \E t \in AllTasks : save_session(t)
    \/ \E t \in AllTasks : save_requests(t)
    \/ \E t \in AllTasks : save_cookies(t)
    \/ \E t \in AllTasks : save_fingerprint_events(t)
    \/ \E t \in AllTasks : save_ad_element(t)
    \/ \E t \in AllTasks : save_ad_capture(t)
    \/ \E t \in AllTasks : save_commit(t)
    \/ \E t \in AllTasks : save_raises(t)
    \/ \E t \in AllTasks : run_task_release(t)
    \/ \E t \in AllTasks : run_task_raises(t)
    \/ main_gather_raises
    \/ main_close_browser
    \/ main_close_db

\* a run on a new database file in which a progress call may raise
SpecEscape == InitLive /\ [][NextEscape]_vars

\* the program started again and again over the same database file, with one
\* task at a time and no retry
InitResume ==
    /\ Init
    /\ config = [concurrency |-> 1, max_retries |-> 0]

NextResume ==
    \/ \E resume \in BOOLEAN, a \in RunArgs :
            main_setup(resume, a.limit, a.modes, MaxResumeRuns)
    \/ \E t \in AllTasks : run_task_acquire(t)
    \/ \E t \in AllTasks : crawl_site_new_context(t)
    \/ \E t \in AllTasks : crawl_site_body(t)
    \/ \E t \in AllTasks : crawl_site_finally(t)
    \/ \E t \in AllTasks : save_crawl_result(t)
    \/ \E t \in AllTasks : save_session(t)
    \/ \E t \in AllTasks : save_requests(t)
    \/ \E t \in AllTasks : save_cookies(t)
    \/ \E t \in AllTasks : save_fingerprint_events(t)
    \/ \E t \in AllTasks : save_ad_element(t)
    \/ \E t \in AllTasks : save_ad_capture(t)
    \/ \E t \in AllTasks : save_commit(t)
    \/ \E t \in AllTasks : save_raises(t)
    \/ \E t \in AllTasks : run_task_release(t)
    \/ main_close_browser
    \/ main_close_db

SpecResume == InitResume /\ [][NextResume]_vars

\* ------------------------------------------------------------------ engine.py
\* one call of crawl_site, one action per awaited statement
CookieKeys == 1..NumCookies

\* the phase a statement belongs to; "" for the statements around the phases
PhaseOf(l) ==
    CASE l = "goto" -> "navigate"
      [] l \in {"settle", "pre_consent"} -> "pre_consent_snapshot"
      [] l = "handle_consent" -> "consent"
      [] l = "dwell" -> "post_consent_dwell"
      [] l = "scroll" -> "scrolling"
      [] l = "final_dwell" -> "final_dwell"
      [] l \in {"collect_results", "detect_ads", "capture_ads", "aggregate",
                "_capture_cookies", "title", "screenshot"} -> "collection"
      [] OTHER -> ""

\* control reaches statement l
goto_line(l) ==
    /\ line' = l
    /\ phase_log' = IF PhaseOf(l) = "" \/ PhaseOf(l) = PhaseOf(line)
                    THEN phase_log ELSE Append(phase_log, PhaseOf(l))

\* where each statement hands control on
after_new_page(s) == IF s.phase2 THEN "inject_monitoring" ELSE "goto"
after_pre_consent(m) == IF m # "ignore" THEN "handle_consent" ELSE "scroll"
\* a dwell after every detected banner
after_handle_consent_detected(info) == IF info.banner_detected THEN "dwell" ELSE "scroll"
after_handle_consent(info) == IF info.action_taken THEN "dwell" ELSE "scroll"
\* a dwell whose loop goes back to the consent resolver
after_dwell_chunk_reenters(elapsed) == IF elapsed < DwellChunks THEN "handle_consent" ELSE "scroll"

\* while elapsed_dwell < dwell_seconds
after_dwell_chunk(elapsed) == IF elapsed < DwellChunks THEN "dwell" ELSE "scroll"
after_scroll(s) ==
    IF s.final_dwell THEN "final_dwell"
    ELSE IF s.phase2 THEN "collect_results" ELSE "_capture_cookies"
after_scroll_step(i, s) == IF i < ScrollSteps THEN "scroll" ELSE after_scroll(s)
after_final_dwell(s) == IF s.phase2 THEN "collect_results" ELSE "_capture_cookies"
\* if ad_capturer and ad_detection_result and ad_detection_result.ads
after_detect_ads(ads) == IF ads = "ads" THEN "capture_ads" ELSE "aggregate"
after_title(s) == IF s.screenshot THEN "screenshot" ELSE "return"

\* the CrawlResult a return statement builds
EngineResult(status, error, reqs, cks, info, coll) ==
    [status |-> status, error |-> error, requests |-> reqs, cookies |-> cks,
     consent_info |-> info, collected |-> coll]

\* a finally block that closes the context only after a return of SUCCESS
finally_closes_on_success(c, r) == IF c = "open" /\ r.status = "success" THEN "closed" ELSE c

\* finally: if context: await context.close()
finally_closes(c, r) == IF c = "open" THEN "closed" ELSE c

\* an exception leaves the try block: except Exception builds the ERROR result
except_exception ==
    /\ ret' = EngineResult("error", "exception", captured_requests, {},
                           [banner_detected |-> FALSE, action_taken |-> FALSE], NoCollected)
    /\ raised' = raised \cup {line}
    /\ goto_line("finally")

browser_new_context ==
    /\ line = "new_context"
    /\ \/ /\ ctx' = "open"
          /\ goto_line("new_page")
          /\ UNCHANGED <<ret, raised>>
       \/ /\ except_exception
          /\ UNCHANGED ctx
    /\ UNCHANGED <<sched_vars, other_vars, captured_requests, goto_calls, mode, settings, jar, pre_consent_cookies, consent_info,
                   elapsed_dwell, scroll_i, collected, cookies, crawl_result,
                   snapshot_read, jar_at_snapshot, close_raised>>

context_new_page ==
    /\ line = "new_page"
    /\ \/ /\ goto_line(after_new_page(settings))
          /\ UNCHANGED <<ret, raised>>
       \/ except_exception
    /\ UNCHANGED <<sched_vars, other_vars, captured_requests, goto_calls, mode, settings, ctx, jar, pre_consent_cookies,
                   consent_info, elapsed_dwell, scroll_i, collected, cookies,
                   crawl_result, snapshot_read, jar_at_snapshot, close_raised>>

\* fingerprint_detector.inject_monitoring(page), outside any inner try
inject_monitoring ==
    /\ line = "inject_monitoring"
    /\ \/ /\ goto_line("goto")
          /\ UNCHANGED <<ret, raised>>
       \/ except_exception
    /\ UNCHANGED <<sched_vars, other_vars, captured_requests, goto_calls, mode, settings, ctx, jar, pre_consent_cookies,
                   consent_info, elapsed_dwell, scroll_i, collected, cookies,
                   crawl_result, snapshot_read, jar_at_snapshot, close_raised>>

\* a timeout handler that navigates once more
after_goto_retries(outcome) ==
    IF outcome = "ok" THEN "settle" ELSE IF outcome = "timeout" THEN "goto" ELSE "finally"

\* page.goto returned, or its exception left through a return or the raise
after_goto(outcome) == IF outcome = "ok" THEN "settle" ELSE "finally"

\* page.goto: loaded, or "timeout" in the message, or any other exception
page_goto ==
    /\ line = "goto"
    /\ \/ /\ goto_calls' = Append(goto_calls, "ok")
          /\ goto_line(after_goto("ok"))
          /\ UNCHANGED <<ret, raised>>
       \/ /\ goto_calls' = Append(goto_calls, "timeout")
          /\ ret' = EngineResult("timeout", "timeout", captured_requests, {},
                                 [banner_detected |-> FALSE, action_taken |-> FALSE],
                                 NoCollected)
          /\ raised' = raised \cup {line}
          /\ goto_line(after_goto("timeout"))
       \/ /\ goto_calls' = Append(goto_calls, "error")
          /\ ret' = EngineResult("error", "exception", captured_requests, {},
                                 [banner_detected |-> FALSE, action_taken |-> FALSE],
                                 NoCollected)
          /\ raised' = raised \cup {line}
          /\ goto_line(after_goto("error"))
    /\ UNCHANGED <<sched_vars, other_vars, captured_requests, mode, settings, ctx, jar,
                   pre_consent_cookies, consent_info, elapsed_dwell, scroll_i,
                   collected, cookies, crawl_result, snapshot_read, jar_at_snapshot,
                   close_raised>>

\* await asyncio.sleep(2)
settle ==
    /\ line = "settle"
    /\ goto_line("pre_consent")
    /\ UNCHANGED <<sched_vars, other_vars, captured_requests, goto_calls, raised, mode, settings, ctx, jar, pre_consent_cookies,
                   consent_info, elapsed_dwell, scroll_i, collected, cookies, ret,
                   crawl_result, snapshot_read, jar_at_snapshot, close_raised>>

\* pre_consent_cookies stays set() when context.cookies() raises
pre_consent_read_raises(j) == {}

\* raw_cookies = await context.cookies(), inside try / except Exception: pass
pre_consent_snapshot ==
    /\ line = "pre_consent"
    /\ \/ /\ pre_consent_cookies' = jar
          /\ snapshot_read' = "ok"
          /\ UNCHANGED raised
       \/ /\ pre_consent_cookies' = pre_consent_read_raises(jar)
          /\ snapshot_read' = "raised"
          /\ raised' = raised \cup {line}
    /\ jar_at_snapshot' = jar
    /\ goto_line(after_pre_consent(mode))
    /\ UNCHANGED <<sched_vars, other_vars, captured_requests, goto_calls, mode, settings, ctx, jar, consent_info, elapsed_dwell,
                   scroll_i, collected, cookies, ret, crawl_result, close_raised>>

\* a handler that keeps reporting an action as taken
consent_raises_action_taken(info) == [banner_detected |-> TRUE, action_taken |-> TRUE]

\* except Exception: consent_info = ConsentInfo(banner_detected=False)
consent_raises(info) == [banner_detected |-> FALSE, action_taken |-> FALSE]

\* consent_handler.handle_consent; an exception gives ConsentInfo(banner_detected=False)
handle_consent ==
    /\ line = "handle_consent"
    /\ \/ \E info \in {[banner_detected |-> FALSE, action_taken |-> FALSE],
                       [banner_detected |-> TRUE, action_taken |-> FALSE],
                       [banner_detected |-> TRUE, action_taken |-> TRUE]} :
            /\ consent_info' = info
            /\ UNCHANGED raised
       \/ /\ consent_info' = consent_raises(consent_info)
          /\ raised' = raised \cup {line}
    /\ goto_line(after_handle_consent(consent_info'))
    /\ UNCHANGED <<sched_vars, other_vars, captured_requests, goto_calls, mode, settings, ctx, jar, pre_consent_cookies,
                   elapsed_dwell, scroll_i, collected, cookies, ret, crawl_result,
                   snapshot_read, jar_at_snapshot, close_raised>>

\* one chunk of the post-consent dwell
dwell_chunk ==
    /\ line = "dwell"
    /\ \/ /\ elapsed_dwell' = elapsed_dwell + 1
          /\ goto_line(after_dwell_chunk(elapsed_dwell'))
          /\ UNCHANGED <<ret, raised>>
       \/ /\ except_exception
          /\ UNCHANGED elapsed_dwell
    /\ UNCHANGED <<sched_vars, other_vars, captured_requests, goto_calls, mode, settings, ctx, jar, pre_consent_cookies,
                   consent_info, scroll_i, collected, cookies, crawl_result,
                   snapshot_read, jar_at_snapshot, close_raised>>

\* one iteration of the scroll loop; an exception ends the loop and is swallowed
scroll_step ==
    /\ line = "scroll"
    /\ \/ /\ scroll_i' = scroll_i + 1
          /\ goto_line(after_scroll_step(scroll_i', settings))
          /\ UNCHANGED raised
       \/ /\ goto_line(after_scroll(settings))
          /\ raised' = raised \cup {line}
          /\ UNCHANGED scroll_i
    /\ UNCHANGED <<sched_vars, other_vars, captured_requests, goto_calls, mode, settings, ctx, jar, pre_consent_cookies,
                   consent_info, elapsed_dwell, collected, cookies, ret, crawl_result,
                   snapshot_read, jar_at_snapshot, close_raised>>

\* await asyncio.sleep(final_dwell_s)
final_dwell ==
    /\ line = "final_dwell"
    /\ \/ /\ goto_line(after_final_dwell(settings))
          /\ UNCHANGED <<ret, raised>>
       \/ except_exception
    /\ UNCHANGED <<sched_vars, other_vars, captured_requests, goto_calls, mode, settings, ctx, jar, pre_consent_cookies,
                   consent_info, elapsed_dwell, scroll_i, collected, cookies,
                   crawl_result, snapshot_read, jar_at_snapshot, close_raised>>

\* a collector's except clause: its result stays None
collector_raises(coll, field) == [coll EXCEPT ![field] = "None"]

\* fingerprint_detector.collect_results(page); a failure leaves None
collect_results ==
    /\ line = "collect_results"
    /\ \/ /\ collected' = [collected EXCEPT !.fingerprint_result = "result"]
          /\ UNCHANGED raised
       \/ /\ collected' = collector_raises(collected, "fingerprint_result")
          /\ raised' = raised \cup {line}
    /\ goto_line("detect_ads")
    /\ UNCHANGED <<sched_vars, other_vars, captured_requests, goto_calls, mode, settings, ctx, jar, pre_consent_cookies,
                   consent_info, elapsed_dwell, scroll_i, cookies, ret, crawl_result,
                   snapshot_read, jar_at_snapshot, close_raised>>

\* ad_detector.detect_ads(page): ads found, none found, or a failure leaving None
detect_ads ==
    /\ line = "detect_ads"
    /\ \/ /\ \E r \in {"ads", "no_ads"} :
                collected' = [collected EXCEPT !.ad_detection_result = r]
          /\ UNCHANGED raised
       \/ /\ collected' = collector_raises(collected, "ad_detection_result")
          /\ raised' = raised \cup {line}
    /\ goto_line(after_detect_ads(collected'.ad_detection_result))
    /\ UNCHANGED <<sched_vars, other_vars, captured_requests, goto_calls, mode, settings, ctx, jar, pre_consent_cookies,
                   consent_info, elapsed_dwell, scroll_i, cookies, ret, crawl_result,
                   snapshot_read, jar_at_snapshot, close_raised>>

\* ad_capturer.capture_ads(...); a failure leaves None
capture_ads ==
    /\ line = "capture_ads"
    /\ \/ /\ collected' = [collected EXCEPT !.ad_capture_result = "result"]
          /\ UNCHANGED raised
       \/ /\ collected' = collector_raises(collected, "ad_capture_result")
          /\ raised' = raised \cup {line}
    /\ goto_line("aggregate")
    /\ UNCHANGED <<sched_vars, other_vars, captured_requests, goto_calls, mode, settings, ctx, jar, pre_consent_cookies,
                   consent_info, elapsed_dwell, scroll_i, cookies, ret, crawl_result,
                   snapshot_read, jar_at_snapshot, close_raised>>

\* resource_classifier.aggregate(captured_requests); a failure leaves None
aggregate ==
    /\ line = "aggregate"
    /\ \/ /\ collected' = [collected EXCEPT !.resource_weight = "result"]
          /\ UNCHANGED raised
       \/ /\ collected' = collector_raises(collected, "resource_weight")
          /\ raised' = raised \cup {line}
    /\ goto_line("_capture_cookies")
    /\ UNCHANGED <<sched_vars, other_vars, captured_requests, goto_calls, mode, settings, ctx, jar, pre_consent_cookies,
                   consent_info, elapsed_dwell, scroll_i, cookies, ret, crawl_result,
                   snapshot_read, jar_at_snapshot, close_raised>>

\* was_before_consent = (c["name"], cookie_domain) in pre_consent_cookies
was_before_consent(k, pre) == k \in pre

CookieRecords(S, pre) ==
    {[key |-> k, set_before_consent |-> was_before_consent(k, pre)] : k \in S}

\* _capture_cookies: every cookie of the context, or, when the read or the
\* loop raises, the records appended so far
capture_cookies ==
    /\ line = "_capture_cookies"
    /\ \/ /\ cookies' = CookieRecords(jar, pre_consent_cookies)
          /\ UNCHANGED raised
       \/ /\ \E S \in SUBSET jar :
                /\ S # jar \/ jar = {}
                /\ cookies' = CookieRecords(S, pre_consent_cookies)
          /\ raised' = raised \cup {line}
    /\ goto_line("title")
    /\ UNCHANGED <<sched_vars, other_vars, captured_requests, goto_calls, mode, settings, ctx, jar, pre_consent_cookies,
                   consent_info, elapsed_dwell, scroll_i, collected, ret, crawl_result,
                   snapshot_read, jar_at_snapshot, close_raised>>

\* page.title(), inside try / except Exception: pass
page_title ==
    /\ line = "title"
    /\ goto_line(after_title(settings))
    /\ UNCHANGED <<sched_vars, other_vars, captured_requests, goto_calls, raised, mode, settings, ctx, jar, pre_consent_cookies,
                   consent_info, elapsed_dwell, scroll_i, collected, cookies, ret,
                   crawl_result, snapshot_read, jar_at_snapshot, close_raised>>

\* page.screenshot(...), a failure is logged
page_screenshot ==
    /\ line = "screenshot"
    /\ goto_line("return")
    /\ UNCHANGED <<sched_vars, other_vars, captured_requests, goto_calls, raised, mode, settings, ctx, jar, pre_consent_cookies,
                   consent_info, elapsed_dwell, scroll_i, collected, cookies, ret,
                   crawl_result, snapshot_read, jar_at_snapshot, close_raised>>

\* return CrawlResult(status=CrawlStatus.SUCCESS, ...)
return_success ==
    /\ line = "return"
    /\ ret' = EngineResult("success", "None", captured_requests, cookies, consent_info,
                        collected)
    /\ goto_line("finally")
    /\ UNCHANGED <<sched_vars, other_vars, captured_requests, goto_calls, raised, mode, settings, ctx, jar, pre_consent_cookies,
                   consent_info, elapsed_dwell, scroll_i, collected, cookies,
                   crawl_result, snapshot_read, jar_at_snapshot, close_raised>>

\* the finally block, then the caller gets the value of the return statement
crawl_site_returns ==
    /\ line = "finally"
    /\ ctx' = finally_closes(ctx, ret)
    /\ \/ /\ ctx' # ctx
          /\ close_raised' = TRUE
       \/ close_raised' = FALSE
    /\ crawl_result' = ret
    /\ goto_line("returned")
    /\ UNCHANGED <<sched_vars, other_vars, captured_requests, goto_calls, raised, mode, settings, jar, pre_consent_cookies, consent_info,
                   elapsed_dwell, scroll_i, collected, cookies, ret, snapshot_read,
                   jar_at_snapshot>>

\* the statements during which the loaded page runs
PageLines == {"settle", "pre_consent", "handle_consent", "dwell", "scroll",
              "final_dwell", "collect_results", "detect_ads", "capture_ads",
              "aggregate", "_capture_cookies"}

\* the page, or the consent click, sets a cookie
page_sets_cookie(k) ==
    /\ line \in PageLines
    /\ k \notin jar
    /\ jar' = jar \cup {k}
    /\ UNCHANGED <<sched_vars, other_vars, captured_requests, goto_calls, raised, line, mode, settings, ctx, pre_consent_cookies,
                   consent_info, elapsed_dwell, scroll_i, collected, cookies, ret,
                   crawl_result, phase_log, snapshot_read, jar_at_snapshot, close_raised>>

\* the page deletes a cookie, or it expires
page_removes_cookie(k) ==
    /\ line \in PageLines
    /\ k \in jar
    /\ jar' = jar \ {k}
    /\ UNCHANGED <<sched_vars, other_vars, captured_requests, goto_calls, raised, line, mode, settings, ctx, pre_consent_cookies,
                   consent_info, elapsed_dwell, scroll_i, collected, cookies, ret,
                   crawl_result, phase_log, snapshot_read, jar_at_snapshot, close_raised>>

\* the lines at which the page's request events reach on_request: from the
\* navigation until the context is closed
RequestLines == PageLines \cup {"goto", "title", "screenshot", "return", "finally"}

\* on_request: captured_requests.append(record); a result already built by a
\* return statement holds the same list
on_request ==
    /\ line \in RequestLines
    /\ ctx = "open"
    /\ captured_requests < MaxRequests
    /\ captured_requests' = captured_requests + 1
    /\ ret' = IF ret.status = "none" THEN ret
              ELSE [ret EXCEPT !.requests = captured_requests']
    /\ UNCHANGED <<sched_vars, other_vars, goto_calls, raised, line, mode, settings, ctx, jar,
                   pre_consent_cookies, consent_info, elapsed_dwell, scroll_i,
                   collected, cookies, crawl_result, phase_log, snapshot_read,
                   jar_at_snapshot, close_raised>>

EngineSettings == [final_dwell : BOOLEAN, phase2 : BOOLEAN, screenshot : BOOLEAN]

SchedIdle ==
    /\ SchedInit
    /\ db_disk = EmptyDb
    /\ config = [concurrency |-> 1, max_retries |-> 0]

InitEngine ==
    /\ SchedIdle
    /\ OtherIdle
    /\ \E m \in ConsentMode, s \in EngineSettings : EngineInit(m, s)

NextEngine ==
    \/ browser_new_context
    \/ context_new_page
    \/ inject_monitoring
    \/ page_goto
    \/ settle
    \/ pre_consent_snapshot
    \/ handle_consent
    \/ dwell_chunk
    \/ scroll_step
    \/ final_dwell
    \/ collect_results
    \/ detect_ads
    \/ capture_ads
    \/ aggregate
    \/ capture_cookies
    \/ page_title
    \/ page_screenshot
    \/ return_success
    \/ crawl_site_returns
    \/ \E k \in CookieKeys : page_sets_cookie(k)
    \/ \E k \in CookieKeys : page_removes_cookie(k)
    \/ on_request

SpecEngine == InitEngine /\ [][NextEngine]_vars

\* ------------------------------------------------------------------ consent.py
\* one call of handle_consent, one action per strategy

\* what a strategy returns on finding f, by the return statements of its method
strategy_returns(name, f) ==
    CASE f = "clicked" ->
            ConsentInfo(TRUE, name, TRUE)
      [] f = "no_button" ->
            ConsentInfo(TRUE, name, FALSE)
      [] OTHER -> NotReturned

\* the clicks a strategy makes on finding f: the two-step flows click their
\* first element (the szn-cwl dialog, the settings button) before the consent
\* button
strategy_clicks(name, f) ==
    CASE f = "clicked" -> IF name = "two_step" THEN <<name, name>> ELSE <<name>>
      [] f \in {"no_button", "first_step"} /\ name = "two_step" -> <<name>>
      [] OTHER -> <<>>

\* a cascade that goes on after a banner without a clickable button
cascade_skips_unclicked(res, i) ==
    IF res # NotReturned /\ res.action_taken THEN Returned ELSE i + 1

\* if result is not None: return result; after the last strategy: return
cascade_next(res, i) == IF res # NotReturned THEN Returned ELSE i + 1

\* if mode == ConsentMode.IGNORE: return ...; await asyncio.sleep(2)
handle_consent_enter ==
    /\ strategy = 0
    /\ IF handle_mode = "ignore"
       THEN /\ strategy' = Returned
            /\ handle_result' = NoBanner
       ELSE /\ strategy' = 1
            /\ UNCHANGED handle_result
    /\ UNCHANGED <<outside_consent, banners, handle_mode, tried, clicks>>

\* strategy i runs; handle_consent returns its result, or goes on to the
\* next one, or returns ConsentInfo(banner_detected=False) after the last
try_strategy(i) ==
    /\ strategy = i
    /\ LET name == StrategyOrder[i]
           res == strategy_returns(name, banners[i])
       IN  /\ tried' = Append(tried, name)
           /\ clicks' = clicks \o strategy_clicks(name, banners[i])
           /\ strategy' = cascade_next(res, i)
           /\ handle_result' = IF strategy' # Returned THEN handle_result
                               ELSE IF res # NotReturned THEN res ELSE NoBanner
    /\ UNCHANGED <<outside_consent, banners, handle_mode>>

\* the pages: what every strategy finds
RECURSIVE PagesUpTo(_)
PagesUpTo(n) ==
    IF n = 0 THEN {<<>>}
    ELSE {Append(b, f) : b \in PagesUpTo(n - 1), f \in Findings(StrategyOrder[n])}
Pages == PagesUpTo(Len(StrategyOrder))

InitConsent ==
    /\ SchedIdle
    /\ EngineIdle
    /\ WeightIdle
    /\ OkIdle
    /\ ResourceIdle
    /\ ResponseIdle
    /\ RequestIdle
    /\ ClassifyIdle
    /\ CookieIdle
    /\ \E b \in Pages, m \in ConsentMode : HandleInit(b, m)

NextConsent ==
    \/ handle_consent_enter
    \/ \E i \in Strategies : try_strategy(i)

SpecConsent == InitConsent /\ [][NextConsent]_vars

\* ------------------------------------------------------------------ engine.py
\* the request callback of crawl_site

\* on_request(request): captured_requests.append(record)
request_event(url) ==
    /\ Len(records) < MaxRecords
    /\ records' = Append(records,
                         RequestRecord(url, extract_registered_domain(site_url)))
    /\ UNCHANGED <<outside_requests, site_url>>

InitRequests ==
    /\ SchedIdle
    /\ EngineIdle
    /\ WeightIdle
    /\ OkIdle
    /\ ResourceIdle
    /\ ResponseIdle
    /\ ConsentIdle
    /\ ClassifyIdle
    /\ CookieIdle
    /\ \E u \in SiteUrls : RequestInit(u)

NextRequests == \E url \in Urls : request_event(url)

SpecRequests == InitRequests /\ [][NextRequests]_vars

\* ------------------------------------------------------------------ tracker_db.py
\* tracker_db.classify(domain)
classify_call(domain) ==
    /\ Len(asked) < MaxAsked
    /\ asked' = Append(asked, domain)
    /\ answers' = Append(answers, classify(lookup, domain))
    /\ UNCHANGED <<outside_classify, lookup>>

InitClassify ==
    /\ SchedIdle
    /\ EngineIdle
    /\ WeightIdle
    /\ OkIdle
    /\ ResourceIdle
    /\ ResponseIdle
    /\ ConsentIdle
    /\ RequestIdle
    /\ CookieIdle
    /\ \E source \in JsonSources : ClassifyInit(source)

NextClassify == \E domain \in Domains : classify_call(domain)

SpecClassify == InitClassify /\ [][NextClassify]_vars

\* ------------------------------------------------------------------ tracker_db.py
\* the two JSON files. Category names as the files give them, with
\* str.lower() of each: services.json of Disconnect.me names its categories
\* "Advertising", "Content", ...
RawCategories == {"Advertising", "Content", "social"}
category_lower ==
    ("Advertising" :> "advertising") @@ ("Content" :> "content") @@ ("social" :> "social")

\* the domains a file lists
FileDomains == {<<"a", "uk">>, <<"a", "co", "uk">>}

\* services.json, flattened: per listed domain the entity and the category
\* name it stands under
DisconnectFiles ==
    UNION {[D -> [entity : {"E2"}, category : RawCategories]] : D \in SUBSET FileDomains}

\* the region file, flattened: per listed domain the entry's name and, when
\* the entry has one, its "category"
CzechFiles ==
    LET entries == {[name |-> "E3"]} \cup [name : {"E3"}, category : {"analytics", "Advertising"}]
    IN  UNION {[D -> entries] : D \in SUBSET FileDomains}

\* _load_disconnect: self._lookup[domain] = (entity_name, category_name.lower())
load_disconnect(table, file) ==
    load(table, [d \in DOMAIN file |-> Entry(file[d].entity, category_lower[file[d].category])])

\* _load_czech_trackers: self._lookup[domain] = (entity_name, category) with
\* category = entry.get("category", "other")
load_czech_trackers(table, file) ==
    load(table, [d \in DOMAIN file |-> Entry(file[d].name, get(file[d], "category", "other"))])

\* TrackerDatabase(disconnect_path, czech_trackers_path)
TrackerDatabase(disconnect, czech) ==
    /\ lookup = load_czech_trackers(load_disconnect(BUILTIN_TRACKERS, disconnect), czech)
    /\ asked = <<>>
    /\ answers = <<>>

InitCategories ==
    /\ SchedIdle
    /\ EngineIdle
    /\ WeightIdle
    /\ OkIdle
    /\ ResourceIdle
    /\ ResponseIdle
    /\ ConsentIdle
    /\ RequestIdle
    /\ CookieIdle
    /\ \E disconnect \in DisconnectFiles, czech \in CzechFiles :
            TrackerDatabase(disconnect, czech)

SpecCategories == InitCategories /\ [][NextClassify]_vars

\* ------------------------------------------------------------------ cookie values
\* _capture_cookies: one CookieRecord per cookie dict, or, when the loop
\* raises, the records appended before
capture_cookie_records ==
    /\ cookie_line = "capture"
    /\ \E n \in 0..Len(raw_cookies) :
          cookie_list' = [i \in 1..n |-> CookieRecord(raw_cookies[i], {})]
    /\ cookie_line' = "result"
    /\ UNCHANGED <<outside_cookies, raw_cookies, result_cookies, cookie_rows>>

\* return CrawlResult(..., cookies=cookies, ...)
crawl_result_cookies ==
    /\ cookie_line = "result"
    /\ result_cookies' = cookie_list
    /\ cookie_line' = "save"
    /\ UNCHANGED <<outside_cookies, raw_cookies, cookie_list, cookie_rows>>

\* save_crawl_result: executemany INSERT INTO cookies
insert_cookies ==
    /\ cookie_line = "save"
    /\ cookie_rows' = [i \in DOMAIN result_cookies |-> CookieRow(1, result_cookies[i])]
    /\ cookie_line' = "saved"
    /\ UNCHANGED <<outside_cookies, raw_cookies, cookie_list, result_cookies>>

RECURSIVE SeqsUpTo(_, _)
SeqsUpTo(S, n) ==
    IF n = 0 THEN {<<>>}
    ELSE SeqsUpTo(S, n - 1) \cup
         {Append(q, x) : q \in {r \in SeqsUpTo(S, n - 1) : Len(r) = n - 1}, x \in S}

InitCookies ==
    /\ SchedIdle
    /\ EngineIdle
    /\ WeightIdle
    /\ OkIdle
    /\ ResourceIdle
    /\ ResponseIdle
    /\ ConsentIdle
    /\ RequestIdle
    /\ ClassifyIdle
    /\ \E raw \in SeqsUpTo(RawCookies, MaxRawCookies) : CookieInit(raw)

NextCookies ==
    \/ capture_cookie_records
    \/ crawl_result_cookies
    \/ insert_cookies

SpecCookies == InitCookies /\ [][NextCookies]_vars

\* ------------------------------------------------------------------ on_response
\* a request event: on_request appends the record and stamps the URL
request_sent(url) ==
    /\ Len(resp_records) < MaxSent
    /\ resp_records' = Append(resp_records, NewRecord(url))
    /\ request_timestamps' = [request_timestamps EXCEPT ![url] = <<clock>>]
    /\ sent_at' = Append(sent_at, clock)
    /\ answered' = Append(answered, None)
    /\ clock' = clock + 1
    /\ UNCHANGED outside_response

\* the response event of request i: on_response looks its URL up
on_response(i, response) ==
    /\ i \in DOMAIN resp_records
    /\ answered[i] = None
    /\ LET req_url == resp_records[i].url
           k == matching(resp_records, req_url)
       IN  resp_records' =
               IF k = 0 THEN resp_records
               ELSE [resp_records EXCEPT
                        ![k] = fill(@, response, clock, request_timestamps)]
    /\ answered' = [answered EXCEPT ![i] = <<[response |-> response, at |-> clock]>>]
    /\ clock' = clock + 1
    /\ UNCHANGED <<outside_response, request_timestamps, sent_at>>

InitResponses ==
    /\ SchedIdle
    /\ EngineIdle
    /\ WeightIdle
    /\ OkIdle
    /\ ResourceIdle
    /\ OtherIdle

NextResponses ==
    \/ \E url \in ReqUrls : request_sent(url)
    \/ \E i \in 1..MaxSent, response \in Responses : on_response(i, response)

SpecResponses == InitResponses /\ [][NextResponses]_vars

\* ------------------------------------------------------------------ resource_weight.py
\* record.resource_category = resource_classifier.classify_request(record, ...)
classify_request_call ==
    /\ rc_result = "None"
    /\ rc_result' = classify_request(rc_record)
    /\ UNCHANGED <<outside_resource, rc_record>>

InitResource ==
    /\ SchedIdle
    /\ EngineIdle
    /\ WeightIdle
    /\ OkIdle
    /\ ConsentIdle
    /\ RequestIdle
    /\ ClassifyIdle
    /\ CookieIdle
    /\ ResponseIdle
    /\ \E record \in RcRecords : ResourceInit(record)

NextResource == classify_request_call

SpecResource == InitResource /\ [][NextResource]_vars

\* ------------------------------------------------------------------ consent.py, phrases
\* scan i runs: it clicks the button for its first matching phrase and the
\* cascade returns, or the next scan follows
scan(i) ==
    /\ ok_step = i
    /\ LET found == matches(ScanOrder[i], ok_texts, ok_mode, ok_button)
       IN  IF found # {}
           THEN /\ \E p \in found :
                      ok_click' = <<[scan |-> ScanOrder[i], pattern |-> p]>>
                /\ ok_step' = ScansDone
           ELSE /\ ok_step' = i + 1
                /\ UNCHANGED ok_click
    /\ UNCHANGED <<outside_okscan, ok_texts, ok_mode, ok_button>>

InitOk ==
    /\ SchedIdle
    /\ EngineIdle
    /\ WeightIdle
    /\ ConsentIdle
    /\ RequestIdle
    /\ ClassifyIdle
    /\ CookieIdle
    /\ ResponseIdle
    /\ ResourceIdle
    /\ \E texts \in SUBSET Phrases, m \in {"accept", "reject"}, button \in Buttons :
            OkInit(texts, m, button)

NextOk == \E i \in 1..Len(ScanOrder) : scan(i)

SpecOk == InitOk /\ [][NextOk]_vars

\* ------------------------------------------------------------------ engine.py
\* the page's events reach on_request and on_response at any await of
\* crawl_site until context.close() has returned
ContextOpen == weight_line \in {"collecting", "collected", "returned"}

\* on_request: the record is appended with its resource_category
weight_on_request(category) ==
    /\ ContextOpen
    /\ Len(weight_requests) < MaxWeightRequests
    /\ weight_requests' = Append(weight_requests,
            [resource_category |-> category, status_code |-> None,
             response_size_bytes |-> None])
    /\ UNCHANGED <<outside_weight, resource_weight, weight_line, weight_rows, weight_session>>

\* on_response for record i, not answered so far: status_code is set, and
\* response_size_bytes when the response has a Content-Length
weight_on_response(i, size) ==
    /\ ContextOpen
    /\ i \in DOMAIN weight_requests
    /\ weight_requests[i].status_code = None
    /\ weight_requests' = [weight_requests EXCEPT
            ![i].status_code = <<200>>, ![i].response_size_bytes = size]
    /\ UNCHANGED <<outside_weight, resource_weight, weight_line, weight_rows, weight_session>>

\* resource_weight = resource_classifier.aggregate(captured_requests); the
\* awaits of _capture_cookies, page.title and page.screenshot follow
weight_aggregate ==
    /\ weight_line = "collecting"
    /\ resource_weight' = <<aggregate_requests(weight_requests)>>
    /\ weight_line' = "collected"
    /\ UNCHANGED <<outside_weight, weight_requests, weight_rows, weight_session>>

\* return CrawlResult(requests=captured_requests, resource_weight=...): the
\* result holds the list itself; finally awaits context.close()
weight_return ==
    /\ weight_line = "collected"
    /\ weight_line' = "returned"
    /\ UNCHANGED <<outside_weight, weight_requests, resource_weight, weight_rows, weight_session>>

\* context.close() has returned; run_task has the result
weight_finally ==
    /\ weight_line = "returned"
    /\ weight_line' = "closed"
    /\ UNCHANGED <<outside_weight, weight_requests, resource_weight, weight_rows, weight_session>>

\* save_crawl_result: the rw_ columns from result.resource_weight, one
\* request row per record of result.requests
weight_save ==
    /\ weight_line = "closed"
    /\ weight_session' = resource_weight
    /\ weight_rows' = weight_requests
    /\ weight_line' = "saved"
    /\ UNCHANGED <<outside_weight, weight_requests, resource_weight>>

InitWeight ==
    /\ SchedIdle
    /\ EngineIdle
    /\ OkIdle
    /\ ResourceIdle
    /\ ResponseIdle
    /\ ConsentIdle
    /\ RequestIdle
    /\ ClassifyIdle
    /\ CookieIdle
    /\ WeightInit

NextWeight ==
    \/ \E category \in WeightCategories : weight_on_request(category)
    \/ \E i \in 1..MaxWeightRequests, size \in Sizes : weight_on_response(i, size)
    \/ weight_aggregate
    \/ weight_return
    \/ weight_finally
    \/ weight_save

SpecWeight == InitWeight /\ [][NextWeight]_vars

\* ================================================================== claims
InCrawlSite == {"body", "finally"}
InLoop == {"crawl_site", "body", "finally", "backoff"}
AfterLoop == {"save", "delay", "done"} \cup SavePcs
HoldsSlot == InLoop \cup {"save", "delay"} \cup SavePcs

\* C2: at every moment at most config.crawler.concurrency tasks hold a slot of
\* the semaphore, that is, are crawling, retrying, saving or in the inter-site
\* delay.
C2_SlotsBounded ==
    Cardinality({t \in AllTasks : pc[t] \in HoldsSlot}) <= config.concurrency

\* two tasks were started with one slot: one holds it, the other waits
C2_Witness ==
    /\ config.concurrency = 1
    /\ \E t, u \in tasks : pc[t] = "save_commit" /\ pc[u] = "acquire"

\* C3: crawl_site is called at least once and at most max_retries + 1 times per
\* task; another attempt follows iff the last one did not return SUCCESS and
\* fewer than max_retries + 1 were made; no attempt follows a SUCCESS.
C3_AttemptsBounded ==
    \A t \in AllTasks :
        LET n == Len(calls[t])
        IN  /\ n <= config.max_retries + 1
            /\ \A i \in 1..(n - 1) : calls[t][i] # "success"
            /\ pc[t] \in InLoop =>
                    /\ n < config.max_retries + 1
                    /\ n > 0 => calls[t][n] # "success"
            /\ pc[t] \in AfterLoop =>
                    /\ n >= 1
                    /\ calls[t][n] = "success" \/ n = config.max_retries + 1

\* a task succeeded at its second attempt, and one gave up after failing twice
C3_Witness ==
    /\ \E t \in tasks : pc[t] = "done" /\ calls[t] = <<"timeout", "success">>
    /\ \E t \in tasks : pc[t] = "done" /\ calls[t] = <<"error", "timeout">>

\* C4: every attempt runs in a context created by that attempt; a task inside
\* crawl_site has exactly that one context open, a task outside crawl_site has
\* none (the failed attempt's context is closed before the next is created),
\* and no more than concurrency contexts are open.
C4_FreshContext ==
    /\ \A t \in AllTasks :
        /\ pc[t] \in InCrawlSite =>
                /\ context[t] = <<t, attempt[t]>>
                /\ {c \in contexts : c[1] = t} = {context[t]}
        /\ pc[t] \notin InCrawlSite => {c \in contexts : c[1] = t} = {}
    /\ Cardinality(contexts) <= config.concurrency

\* a retry runs in its own context while another task has its context open
C4_Witness ==
    \E t, u \in tasks :
        /\ t # u
        /\ pc[t] = "body" /\ attempt[t] = 1 /\ calls[t] = <<"error">>
        /\ context[t] = <<t, 1>>
        /\ pc[u] = "finally" /\ context[u] \in contexts

\* every row of the observation a session row was written from
RowsOfSession(r) ==
    ObservationRows(r.id, <<r.site, r.consent_mode>>, observation[r.id])

\* C5: in every committed state of the store a crawl_sessions row is there
\* together with every request, cookie, fingerprint-event, ad-element and
\* ad-capture row of its observation, also with concurrent saves on the shared
\* connection and with a save that fails part-way.
C5_AtomicObservation ==
    \A r \in db_disk.crawl_sessions :
        \A tb \in Tables : RowsOfSession(r)[tb] \subseteq db_disk[tb]

\* C6: save_crawl_result is called once per task, after the last attempt and
\* with its result; within a run a task adds at most one crawl_sessions row,
\* and its status is the final attempt's.
C6_SavedOnce ==
    \A t \in AllTasks :
        /\ pc[t] \in InLoop \cup {"none", "acquire"} => saves[t] = <<>>
        /\ pc[t] \in {"delay", "done"} \cup SavePcs =>
                /\ Len(saves[t]) = 1
                /\ saves[t][1] = result[t]
                /\ saves[t][1].status = calls[t][Len(calls[t])]
        /\ LET added == {r \in db_conn.crawl_sessions \ rows_at_build.crawl_sessions :
                            r.site = t[1] /\ r.consent_mode = t[2]}
           IN  /\ Cardinality(added) <= 1
               /\ \A r \in added : r.status = calls[t][Len(calls[t])]

\* a task that failed, then timed out, has its one row, of status timeout
C6_Witness ==
    \E t \in tasks :
        /\ pc[t] = "done"
        /\ calls[t] = <<"error", "timeout">>
        /\ \E r \in db_disk.crawl_sessions \ rows_at_build.crawl_sessions :
                r.site = t[1] /\ r.consent_mode = t[2] /\ r.status = "timeout"

\* C9: for every persisted session row whose save is over, total_requests and
\* third_party_requests are the number of its request rows and of those with
\* is_third_party, total_cookies_set and tracking_cookies_set the number of its
\* cookie rows and of those with is_tracking_cookie.
C9_CountersMatchRows ==
    \A r \in db_disk.crawl_sessions :
        (\A t \in AllTasks : ~(pc[t] \in SavePcs /\ session_id[t] = r.id)) =>
            LET reqs == {q \in db_disk.requests : q.session_id = r.id}
                cks == {c \in db_disk.cookies : c.session_id = r.id}
            IN  /\ r.total_requests = Cardinality(reqs)
                /\ r.third_party_requests = Cardinality({q \in reqs : q.is_third_party})
                /\ r.total_cookies_set = Cardinality(cks)
                /\ r.tracking_cookies_set = Cardinality({c \in cks : c.is_tracking_cookie})

HasSuccess(db, t) ==
    \E r \in db.crawl_sessions :
        r.site = t[1] /\ r.consent_mode = t[2] /\ r.status = "success"
Complete(db, limit, modes) == \A t \in (1..limit) \X modes : HasSuccess(db, t)

\* C10: with --resume a pair is enqueued iff the store holds no SUCCESS session
\* of it (without --resume every pair is enqueued); a --resume run over a store
\* where every pair has one runs no task and leaves the store as it was, and so
\* does the same run made again: each starts from the file the last one left.
C10_ResumeSkips ==
    /\ run > 0 =>
        \A t \in AllTasks :
            t \in tasks <=>
                /\ t \in (1..args.limit) \X args.modes
                /\ ~(args.resume /\ HasSuccess(rows_at_build, t))
    /\ (run > 0 /\ args.resume /\ Complete(disk_at_start, args.limit, args.modes)) =>
            /\ main_pc = "exited"
            /\ db_disk = disk_at_start
            /\ \A t \in AllTasks : calls[t] = <<>> /\ saves[t] = <<>>

\* a first run filled the store with four rows per table at most, among them
\* a SUCCESS session of each pair, and the --resume run after it has ended with
\* the store as the first run left it
C10_Witness ==
    /\ run = 2
    /\ main_pc = "exited"
    /\ args.resume
    /\ args.modes = {"ignore", "accept"}
    /\ Complete(disk_at_start, args.limit, args.modes)
    /\ \E r \in disk_at_start.crawl_sessions : r.status # "success"
    /\ db_disk = disk_at_start

\* ------------------------------------------------------------------ crawl_site
\* C1: when crawl_site hands back its result, a context it created has had
\* close() awaited, whatever the exit path (SUCCESS, TIMEOUT, ERROR), and the
\* result is the one the return statement built, also when close() raised.
C1_ContextClosed ==
    line = "returned" =>
        /\ ctx # "open"
        /\ close_raised => ctx = "closed"
        /\ crawl_result = ret
        /\ crawl_result.status \in {"success", "timeout", "error"}

C1_Witness ==
    /\ line = "returned"
    /\ ctx = "closed"
    /\ close_raised
    /\ crawl_result.status = "error"

PhaseOrder == <<"navigate", "pre_consent_snapshot", "consent", "post_consent_dwell",
                "scrolling", "final_dwell", "collection">>
PhaseRank(ph) == CHOOSE i \in 1..Len(PhaseOrder) : PhaseOrder[i] = ph
PhasesEntered == {phase_log[i] : i \in 1..Len(phase_log)}

\* C7: the phases entered are in the order navigate, pre-consent snapshot,
\* consent, post-consent dwell, scrolling, final dwell, collection, none
\* entered twice; the snapshot has been read before the consent resolver is
\* invoked, and a dwell that was entered has run all its chunks before
\* scrolling starts.
C7_PhaseOrder ==
    /\ \A i, j \in 1..Len(phase_log) :
            i < j => PhaseRank(phase_log[i]) < PhaseRank(phase_log[j])
    /\ phase_log # <<>> => phase_log[1] = "navigate"
    /\ "consent" \in PhasesEntered => snapshot_read # "no"
    /\ {"post_consent_dwell", "scrolling"} \subseteq PhasesEntered
            => elapsed_dwell = DwellChunks

C7_Witness ==
    /\ line = "returned"
    /\ phase_log = PhaseOrder
    /\ scroll_i = ScrollSteps

\* C8: in a SUCCESS result a cookie record has set_before_consent true iff
\* its (name, domain) pair was in the context's jar at the read made just
\* before consent handling; so a cookie there before and after has it true.
C8_FlagIffInSnapshot ==
    (line = "returned" /\ crawl_result.status = "success") =>
        \A c \in crawl_result.cookies :
            c.set_before_consent <=> c.key \in jar_at_snapshot

\* C11: an attempt whose navigation timed out returns TIMEOUT with the request
\* records captured, having entered no phase after the navigation and having
\* called page.goto once; one whose navigation failed otherwise returns ERROR
\* with the request records captured.
C11_NavigationFailure ==
    (line = "returned" /\ goto_calls # <<>> /\ goto_calls[1] # "ok") =>
        /\ goto_calls \in {<<"timeout">>, <<"error">>}
        /\ crawl_result.status = (IF goto_calls = <<"timeout">> THEN "timeout" ELSE "error")
        /\ crawl_result.requests = captured_requests
        /\ phase_log = <<"navigate">>
        /\ snapshot_read = "no"
        /\ crawl_result.cookies = {}
        /\ crawl_result.collected = NoCollected

\* a navigation that timed out after a request was captured
C11_Witness ==
    /\ line = "returned"
    /\ goto_calls = <<"timeout">>
    /\ crawl_result.status = "timeout"
    /\ crawl_result.requests = MaxRequests

\* C12 as stated: an exception during navigation, consent handling or a dwell
\* ends the attempt with a status other than SUCCESS and the request records
\* captured.
C12_CorePathAborts ==
    (line = "returned" /\ raised \cap {"goto", "handle_consent", "dwell", "final_dwell"} # {}) =>
        /\ crawl_result.status # "success"
        /\ crawl_result.requests = captured_requests

\* C12: an exception during navigation or a dwell ends the attempt with status
\* TIMEOUT or ERROR and the request records captured; an exception of the
\* consent handler is caught: the attempt goes on as with no banner detected,
\* without the post-consent dwell, and returns SUCCESS unless a later
\* statement fails.
C12_NavigationDwellAbort ==
    /\ (line = "returned" /\ raised \cap {"goto", "dwell", "final_dwell"} # {}) =>
            /\ crawl_result.status \in {"timeout", "error"}
            /\ crawl_result.requests = captured_requests
    /\ "handle_consent" \in raised =>
            /\ consent_info = [banner_detected |-> FALSE, action_taken |-> FALSE]
            /\ "post_consent_dwell" \notin PhasesEntered
            /\ line = "returned" =>
                    (crawl_result.status = "success" <=> raised \cap {"final_dwell"} = {})

\* the consent handler raised and the attempt returned SUCCESS
C12_Witness ==
    /\ line = "returned"
    /\ "handle_consent" \in raised
    /\ crawl_result.status = "success"
    /\ crawl_result.requests = MaxRequests

\* the statements that call a collector, and the result each one fills
CollectorLines == {"inject_monitoring", "collect_results", "detect_ads", "capture_ads",
                   "aggregate"}
CollectorField(l) ==
    CASE l = "collect_results" -> "fingerprint_result"
      [] l = "detect_ads" -> "ad_detection_result"
      [] l = "capture_ads" -> "ad_capture_result"
      [] l = "aggregate" -> "resource_weight"

\* the attempts in which only the collectors of F failed
OnlyCollectorsFailed(F) ==
    /\ line = "returned"
    /\ raised # {}
    /\ raised \subseteq F

\* the result of such an attempt: SUCCESS, the failed collectors' results
\* absent, the results of those that ran without failing present, the request
\* and cookie records as captured
CollectorFailureIsolated ==
    /\ crawl_result.status = "success"
    /\ \A l \in CollectorLines \ {"inject_monitoring"} :
            /\ l \in raised => crawl_result.collected[CollectorField(l)] = "None"
            /\ (l \notin raised /\ (l = "capture_ads" =>
                                        crawl_result.collected.ad_detection_result = "ads"))
                    => crawl_result.collected[CollectorField(l)] # "None"
    /\ crawl_result.requests = captured_requests
    /\ crawl_result.cookies = cookies

\* C13: a failure inside a collector (fingerprint hook installation or
\* harvesting, ad detection, ad capture, resource-weight aggregation) does not
\* abort the attempt: it returns SUCCESS with the failed collector's result
\* absent and the other results and the request and cookie records intact.
C13_CollectorFailureIsolated ==
    OnlyCollectorsFailed(CollectorLines) => CollectorFailureIsolated

\* ------------------------------------------------------------------ handle_consent
FirstOf(S) == CHOOSE i \in S : \A j \in S : i <= j
TriedInOrder == tried = SubSeq(StrategyOrder, 1, Len(tried))

PhaseBefore(ph) ==
    LET k == CHOOSE i \in 1..Len(phase_log) : phase_log[i] = ph
    IN  phase_log[k - 1]
\* handle_consent has returned or raised
Resolved == "consent" \in PhasesEntered /\ line # "handle_consent"

\* C15: the consent resolver is invoked iff mode is not IGNORE; the
\* post-consent dwell takes place iff the resolver returned action_taken;
\* in IGNORE mode, without an action or after a failure of the resolver,
\* scrolling follows directly.
C15_DwellIffAction ==
    /\ "consent" \in PhasesEntered <=> (mode # "ignore" /\ snapshot_read # "no")
    /\ "post_consent_dwell" \in PhasesEntered <=> (Resolved /\ consent_info.action_taken)
    /\ "handle_consent" \in raised => ~consent_info.action_taken
    /\ "scrolling" \in PhasesEntered =>
            PhaseBefore("scrolling") =
                IF mode = "ignore" THEN "pre_consent_snapshot"
                ELSE IF consent_info.action_taken THEN "post_consent_dwell"
                ELSE "consent"

\* the resolver found a banner and took no action: scrolling followed
\* consent handling
C15_Witness ==
    /\ line = "returned"
    /\ mode = "reject"
    /\ consent_info = [banner_detected |-> TRUE, action_taken |-> FALSE]
    /\ "scrolling" \in PhasesEntered
    /\ "post_consent_dwell" \notin PhasesEntered

\* ------------------------------------------------------------------ on_request
\* C16: every request record has is_third_party true iff the registered
\* domain of its URL differs from that of the site's URL; two records with
\* the same domain field have the same flag; the flag is false exactly when
\* the domain field is the site's registered domain.
C16_ThirdPartyByRegisteredDomain ==
    /\ \A i \in 1..Len(records) :
        /\ records[i].is_third_party <=>
                extract_registered_domain(records[i].url) # extract_registered_domain(site_url)
        /\ ~records[i].is_third_party <=>
                records[i].domain = extract_registered_domain(site_url)
    /\ \A i, j \in 1..Len(records) :
            records[i].domain = records[j].domain =>
                records[i].is_third_party = records[j].is_third_party

\* a request to a subdomain of the site and one to another domain under the
\* same suffix
C16_Witness ==
    /\ site_url = Str("url", <<"a", "uk">>)
    /\ Len(records) = 2
    /\ records[1].url = Str("url", <<"b", "uk">>) /\ records[1].is_third_party
    /\ records[2].url = Str("url", <<"b", "a", "uk">>) /\ ~records[2].is_third_party

\* ------------------------------------------------------------------ classify
\* s is d with one or more labels before it
ProperSubdomain(s, d) == Len(s) > Len(d) /\ SubSeq(s, Len(s) - Len(d) + 1, Len(s)) = d

\* C17: when classify gave a domain an entity, it gives every proper
\* subdomain of that domain the same entity, whatever the lookup table.
C17_SubdomainSameEntity ==
    \A i, j \in 1..Len(asked) :
        (ProperSubdomain(asked[j], asked[i]) /\ answers[i].entity # "None") =>
            answers[j].entity = answers[i].entity

\* C18: classifying the registered domain of a hostname gives the same
\* (entity, category) as classifying the hostname, with the built-in table
\* and with any table the JSON sources extend it to.
C18_RegisteredDomainSameEntry ==
    \A i, j \in 1..Len(asked) :
        asked[j] = extract_registered_domain(Str("bare", asked[i])).host =>
            answers[j] = answers[i]

\* ------------------------------------------------------------------ cookie values
\* the fields of a record that hold text
TextFields == {"name", "domain", "value_hash", "path", "expires_at", "lifetime_days",
               "same_site", "tracker_entity", "timestamp"}

\* the records kept anywhere: the captured list, the result, the stored rows
KeptRecords ==
    {<<i, cookie_list[i]>> : i \in DOMAIN cookie_list} \cup
    {<<i, result_cookies[i]>> : i \in DOMAIN result_cookies} \cup
    {<<i, cookie_rows[i]>> : i \in DOMAIN cookie_rows}

\* C19: no CookieRecord, CrawlResult or stored row has a field for the raw
\* value or holds the raw value of a cookie in a field; what is kept of the
\* value is value_hash, the SHA-256 of the encoded value.
C19_OnlyValueHash ==
    \A k \in KeptRecords :
        LET c == raw_cookies[k[1]]
            r == k[2]
            value == IF "value" \in DOMAIN c THEN c.value ELSE ""
        IN  /\ "value" \notin DOMAIN r
            /\ r.value_hash = sha256_hexdigest[encode(value)]
            /\ \A f \in TextFields : r[f] \notin Values
            /\ \A v \in Values :
                  [CookieRecord(c @@ [value |-> value], {}) EXCEPT !.value_hash = ""] =
                  [CookieRecord([c @@ [value |-> value] EXCEPT !.value = v], {})
                       EXCEPT !.value_hash = ""]

C19_Witness ==
    /\ cookie_line = "saved"
    /\ Len(cookie_rows) = MaxRawCookies
    /\ "value" \in DOMAIN raw_cookies[1] /\ raw_cookies[1].value = "v"
    /\ "value" \in DOMAIN raw_cookies[2] /\ raw_cookies[2].value = "\\ud800"
    /\ cookie_rows[2].value_hash = cookie_list[2].value_hash

\* ------------------------------------------------------------------ failed saves
\* every task of the run is over, with its save attempted and its result shown
AllTasksComplete ==
    \A u \in tasks :
        /\ pc[u] = "done"
        /\ Len(saves[u]) = 1
        /\ printed[u] = <<result[u]>>

\* a task whose save raised was logged, has had its result shown once, and is
\* in its delay or past it; the slots are all accounted for; main leaves
\* gather only with every task complete
SaveFailureContained ==
    /\ \A t \in logged :
          /\ pc[t] \in {"delay", "done"}
          /\ Len(saves[t]) = 1
          /\ printed[t] = <<result[t]>>
    /\ logged # {} =>
          sem + Cardinality({t \in AllTasks : pc[t] \in HoldsSlot}) = config.concurrency
    /\ (logged # {} /\ main_pc # "gather") => AllTasksComplete

\* C20: when save_crawl_result raises for a task the error is logged and the
\* task goes on: its result is reported, the delay is made and the slot is
\* released; the scheduler is not aborted, every task of the run runs to
\* completion and has its save attempted.
C20_SaveFailureContained ==
    /\ []SaveFailureContained
    /\ (logged # {}) ~> (main_pc = "exited" /\ AllTasksComplete)

\* with one slot, a task's save raised after its session row was inserted, and
\* a task that got the slot later was saved and committed
C20_Witness ==
    /\ main_pc = "exited"
    /\ config.concurrency = 1
    /\ \E t \in logged, u \in tasks \ logged :
          /\ session_id[t] > 0
          /\ session_id[u] > session_id[t]
          /\ \E r \in db_disk.crawl_sessions : r.id = session_id[u]
    /\ AllTasksComplete

\* ------------------------------------------------------------------ handle_consent
\* C21: a strategy that finds a consent UI and cannot click it does not end
\* the cascade: its result is never the one returned while a later strategy
\* could still click.
C21_FailedClickGoesOn ==
    (strategy = Returned /\ handle_mode # "ignore") =>
        \A i \in Strategies :
            (banners[i] = "no_button" /\ \E j \in Strategies : j > i /\ banners[j] = "clicked")
                => handle_result # ConsentInfo(TRUE, StrategyOrder[i], FALSE)

\* ------------------------------------------------------------------ on_response
\* C22: the record of a request that got no response has status_code,
\* response_size_bytes, content_type and timing_ms null, whatever the order of
\* the events and whatever other requests to the same URL got.
C22_UnansweredStaysNull ==
    \A i \in DOMAIN resp_records :
        answered[i] = None =>
            /\ resp_records[i].status_code = None
            /\ resp_records[i].response_size_bytes = None
            /\ resp_records[i].content_type = None
            /\ resp_records[i].timing_ms = None

\* C23: a record that got its response holds that response's status, size and
\* content type, and as timing_ms the time from its own request event to
\* that response event; no other response is written to it.
C23_ResponseOnOwnRecord ==
    \A i \in DOMAIN resp_records :
        answered[i] # None =>
            LET a == answered[i][1]
            IN  /\ resp_records[i].status_code = <<a.response.status>>
                /\ resp_records[i].content_type = a.response.content_type
                /\ resp_records[i].response_size_bytes =
                        (IF a.response.content_length # None
                         THEN int_of[a.response.content_length[1]] ELSE None)
                /\ resp_records[i].timing_ms = <<a.at - sent_at[i]>>

\* ------------------------------------------------------------------ classify_request
\* the rules of C24, in the order the claim gives them
RulesAsStated(record) ==
    IF ~record.is_third_party THEN "content_1p"
    ELSE IF record.entry.category = "advertising" \/ record.ad_pattern THEN "ad"
    ELSE IF record.entry.category \in {"analytics", "fingerprinting", "social"} THEN "tracker"
    ELSE IF record.in_cdn_domains \/ record.cdn_pattern THEN "cdn"
    ELSE IF record.in_functional_domains \/ record.functional_pattern THEN "functional_3p"
    ELSE "unknown_3p"

\* C24: classify_request returns content_1p iff the request is first-party,
\* and for a third-party request the first that applies of: ad (category
\* advertising or an ad pattern), tracker (category analytics, fingerprinting
\* or social), cdn (CDN set or pattern), functional_3p (functional set),
\* unknown_3p; always one of the six values.
C24_RulesAsStated ==
    rc_result # "None" =>
        /\ rc_result \in ResourceCategory
        /\ rc_result = RulesAsStated(rc_record)

\* ------------------------------------------------------------------ the phrase "ok"
\* C25: whatever the configured phrases, no scan matches a button with the
\* phrase "ok"; a button whose text is OK is clicked only by the last-resort
\* scan, in mode ACCEPT and inside a consent context.
C25_OkNeverAPhrase ==
    ok_click # None =>
        LET c == ok_click[1]
        IN  /\ c.pattern # "ok"
            /\ lower[ok_button.text] = "ok" =>
                  /\ c.scan = "ok_button"
                  /\ ok_mode = "accept"
                  /\ ok_button.consent_context

\* C26: an exception that escapes one task's run_task ends that task only:
\* when the run is over, every other task of the run is done and its result
\* was saved or its save failure logged, the browser was closed by main and
\* main went on to close the store
RunOver == run > 0 /\ tasks # {} /\ main_pc \in {"exited", "aborted"}

C26_EscapeEndsOneTask ==
    RunOver /\ (\E t \in tasks : pc[t] = "raised") =>
        /\ \A t \in tasks :
              pc[t] # "raised" =>
                  /\ pc[t] = "done"
                  /\ t \in logged \/ has_session(db_disk, t[1], t[2])
        /\ browser = "closed"
        /\ main_pc = "exited"

\* ------------------------------------------------------------------ categories
\* the categories of the specification
NormalCategories == {"advertising", "analytics", "social", "fingerprinting", "cdn", "other"}

\* C27: with the built-in table and the two JSON files loaded, every category
\* classify returns for a known domain is one of advertising, analytics,
\* social, fingerprinting, cdn, other.
C27_CategoriesNormalized ==
    \A i \in 1..Len(answers) :
        answers[i] # Unknown => answers[i].category \in NormalCategories

C29_TotalsMatchRows ==
    weight_line = "saved" =>
        /\ weight_session # None
        /\ weight_session[1] = aggregate_requests(weight_rows)

\* ------------------------------------------------------------------ termination
\* a finished task made at most max_retries + 1 attempts and one save
FinishedWithinBounds ==
    \A t \in tasks :
        pc[t] = "done" =>
            /\ Len(calls[t]) \in 1..(config.max_retries + 1)
            /\ Len(saves[t]) = 1

\* the browser is closed only with every task finished and every slot back
ClosedAfterTasks ==
    browser = "closed" =>
        /\ \A t \in tasks : pc[t] = "done"
        /\ sem = config.concurrency

====
